---- MODULE Spec2Model ----
(***************************************************************************)
(* State-machine model of the danmu pipeline of Edwinzzzs2/subtitle:       *)
(*   - utils/concurrent_processor.py : ConcurrentFileProcessor (worker     *)
(*     pool, in-flight set, retry scheduler)            -> Spec            *)
(*   - utils/watcher.py : SubtitleHandler (event dedup) -> SpecWatcher     *)
(*   - danmu/danmu_client.py : DanmuClient              -> SpecClient      *)
(* Each specification moves only the variables of its own component.       *)
(***************************************************************************)
EXTENDS Integers, Sequences, FiniteSets, Bags, TLC

VARIABLES
    \* ---- ConcurrentFileProcessor (utils/concurrent_processor.py)
    processing_files,   \* self.processing_files : set of paths
    retry_queue,        \* self.retry_queue      : sequence of RetryTask
    pool,               \* self.executor         : bag of submitted runs
    callers,            \* threads calling process_file_concurrent
    batch,              \* the thread calling process_files_batch
    retry_thread,       \* position of _retry_processor_loop
    now,                \* datetime.now(), in seconds
    config,             \* watcher._config (max_retries, retry_delay)
    processed_files,    \* watcher._processed_files
    \* ---- history of the processor (observations, never read by actions)
    invoked,            \* [path -> number of orchestrator calls]
    first_submits,      \* [path -> number of first-attempt runs submitted]
    orch_ok,            \* [path -> number of orchestrator calls that succeeded]
    completed,          \* [path -> number of runs whose worker returned]
    terminal_logged,    \* [path -> number of terminal-failure log entries]
    queued_ever,        \* every RetryTask ever put in retry_queue
    requeues,           \* every requeue made after a retry execution
    \* ---- SubtitleHandler (utils/watcher.py), time in tenths of a second
    recent_events,      \* self.recent_events : event key -> time last accepted
    handler_processing, \* self.processing_files of the handler
    event_queue,        \* notifications delivered by the observer, not yet dispatched
    handler,            \* position of the observer thread inside on_created/on_moved
    wclock,             \* time.time()
    evals,              \* history: one record per dispatched notification
    running,            \* watcher._running
    attempt_loop,       \* the frame of process_file: its locals and position
    \* ---- DanmuClient (danmu/danmu_client.py), time in seconds
    base_url,           \* danmu_api.base_url or base_url of self.config
    library_cache,      \* self._library_cache
    sources_cache,      \* self._sources_cache
    episodes_cache,     \* self._episodes_cache
    cclock,             \* time.time()
    http_requests,      \* history: number of session.get calls
    call_log,           \* history: one record per call made on the client
    \* ---- JsonToXmlConverter (danmu/json_to_xml.py)
    p_attr,             \* a comment's 'p' string, as a sequence of characters
    p_out,              \* the p attribute generate_dandan_xml writes for it
    comments_in,        \* the comment list handed to the converter
    normalized,         \* what _normalize_comments returns for it
    xml_result,         \* what convert_json_to_xml returns and writes for it
    xml_done,           \* the functions applied so far
    tree_xml,           \* what generate_xml_from_comments returns for normalized
    \* ---- VideoFileParser (utils/video_parser.py)
    file_name,          \* the file name handed to parse_video_filename
    video_info,         \* what parse_video_filename returns for it
    parsed,             \* parse_video_filename has returned
    \* ---- DanmuDownloader.process_video_file (danmu/danmu_downloader.py)
    pc_process,         \* where process_video_file is
    library_result,     \* what get_library_list answered
    search_result,      \* the anime _search_anime returned
    sources_result,     \* what get_anime_sources answered
    episodes_results,   \* what get_source_episodes answered, per source
    all_episodes,       \* the dict _get_episodes returned, in key order
    danmu_results,      \* what get_episode_danmaku answered, per pass
    downloaded_files,   \* line 136
    failed_sources,     \* line 137
    steps,              \* how far each pass of the loop got
    match_result,       \* what _match_episode returned in the last pass, line 144
    written_files,      \* the XML files on disk
    result,             \* what process_video_file returned
    \* ---- get_concurrent_processor (utils/concurrent_processor.py)
    concurrent_processor,   \* the global _concurrent_processor
    processors,             \* the ConcurrentFileProcessor objects made so far
    max_concurrent_workers, \* the configured worker count
    local_max_workers,      \* per caller: max_workers, line 409
    old_processor,          \* per caller: old_processor, line 423
    handle,                 \* per caller: the processor returned, line 431
    submissions,            \* the files handed to a returned processor
    resize_pc,              \* per caller: where it is
    config_changes,         \* changes of the configured worker count so far
    \* ---- ConcurrentFileProcessor.shutdown (utils/concurrent_processor.py)
    retry_thread_running,   \* self.retry_thread_running
    executor_shutdown,      \* self.executor._shutdown
    ready_tasks,            \* ready_tasks of the retry loop, not yet submitted
    shutdown_pc,            \* where the caller of shutdown() is
    join_timed_out,         \* retry_thread.join(timeout=5) returned on its timeout
    warnings,               \* the warnings logged by the retry loop
    taken_before,           \* history: the RetryTasks that had left the queue
                            \* when shutdown() was called
    \* ---- history of the first attempts
    submitted_config,       \* [path -> get_config() when the path was submitted]
    first_outcome           \* [kind of run -> what the orchestrator call did]

poolVars == <<processing_files, retry_queue, pool, callers, batch, retry_thread,
              now, config, processed_files>>
poolHist == <<invoked, first_submits, orch_ok, completed, terminal_logged,
              queued_ever, requeues>>

watcherVars == <<recent_events, handler_processing, event_queue, handler, wclock,
                 evals, running, attempt_loop>>

clientVars == <<base_url, library_cache, sources_cache, episodes_cache, cclock,
                http_requests, call_log>>

xmlVars == <<p_attr, p_out, comments_in, normalized, xml_result, xml_done,
             tree_xml>>

parserVars == <<file_name, video_info, parsed>>

orchVars == <<pc_process, library_result, search_result, sources_result,
              episodes_results, all_episodes, danmu_results, downloaded_files,
              failed_sources, steps, written_files, result, match_result>>

resizeVars == <<concurrent_processor, processors, max_concurrent_workers,
                local_max_workers, old_processor, handle, submissions, resize_pc,
                config_changes>>

submitHist == <<submitted_config, first_outcome>>

teardownVars == <<retry_thread_running, executor_shutdown, ready_tasks, shutdown_pc,
                  join_timed_out, warnings, taken_before>>

vars == <<poolVars, poolHist, watcherVars, clientVars, xmlVars, parserVars, orchVars,
          resizeVars, teardownVars, submitHist>>

\* What each component leaves alone.
exceptTeardown == <<watcherVars, clientVars, xmlVars, parserVars, orchVars,
    resizeVars, submitHist>>
exceptPool == <<exceptTeardown, teardownVars>>
exceptConfig == <<watcherVars, clientVars, xmlVars, parserVars, orchVars,
    resizeVars, teardownVars>>
exceptWatcher == <<poolVars, poolHist, clientVars, xmlVars, parserVars, orchVars,
    resizeVars, teardownVars, submitHist>>
exceptClient == <<poolVars, poolHist, watcherVars, xmlVars, parserVars, orchVars,
    resizeVars, teardownVars, submitHist>>
exceptXml == <<poolVars, poolHist, watcherVars, clientVars, parserVars, orchVars,
    resizeVars, teardownVars, submitHist>>
exceptParser == <<poolVars, poolHist, watcherVars, clientVars, xmlVars, orchVars,
    resizeVars, teardownVars, submitHist>>
exceptOrch == <<poolVars, poolHist, watcherVars, clientVars, xmlVars, resizeVars,
                teardownVars, submitHist>>
exceptResize == <<poolVars, poolHist, watcherVars, clientVars, xmlVars, parserVars,
                  orchVars, teardownVars, submitHist>>

(***************************************************************************)
(* Bounds of the exploration.                                              *)
(***************************************************************************)
Paths == {"a.mp4", "b.mp4"}
\* The path that concurrent callers and repeated notifications are about.
SharedPaths == {"a.mp4"}
Callers == {"t1", "t2"}
BatchInputs == {<<"a.mp4">>}
\* Largest configured max_retries explored (config.get('max_retries', 3)).
MaxAttempts == 3
\* Configured worker count explored (config.get('max_concurrent_workers', 4)).
max_workers == 2

(***************************************************************************)
(* Program constants.                                                      *)
(***************************************************************************)
DefaultRetryDelay == 1
\* The attempt number given to _schedule_retry after a failed first attempt.
FirstRetryAttempt == 2

Zero == [p \in Paths |-> 0]
Inc(f, p) == [f EXCEPT ![p] = @ + 1]

(***************************************************************************)
(* RetryTask (dataclass) and the runs held by the ThreadPoolExecutor.      *)
(***************************************************************************)
RetryTask(fp, att, mx, t) ==
    [filepath |-> fp, attempt |-> att, max_retries |-> mx, retry_time |-> t]

\* A run submitted to self.executor.  kind: "cb" (process_file_concurrent,
\* result handled by the done-callback), "batch" (process_files_batch),
\* "retry" (_process_single_retry_task).  st: queued, running, done (worker
\* returned, result not yet handled), finally (result handled, the finally
\* clause that discards the path not yet run).
Run(kind, fp, att, mx, st, orchok, success) ==
    [kind |-> kind, filepath |-> fp, attempt |-> att, max_retries |-> mx,
     st |-> st, orch |-> orchok, success |-> success]

Submit(pl, r) == pl (+) SetToBag({r})
Remove(pl, r) == pl (-) SetToBag({r})
Replace(pl, r, s) == Submit(Remove(pl, r), s)
RunsOf(pl) == BagToSet(pl)
Busy(pl) ==
    LET occ == {r \in RunsOf(pl) :
                   r.st = "running" \/ (r.kind = "cb" /\ r.st = "finally")}
    IN  BagCardinality([r \in occ |-> pl[r]])

(***************************************************************************)
(* _schedule_retry: the queue after the call, and whether it logged the    *)
(* terminal failure.                                                       *)
(***************************************************************************)
\* Mutant: the attempt limit of _schedule_retry off by one.
ScheduleRetryDropsOffByOne(att, mx) == att > mx + 1

\* line 225: the guard that drops the task and logs the terminal failure.
ScheduleRetryDrops(att, mx) == att > mx

\* Mutant: the task is due at once, the delay is not added.
RetryTimeNoDelay(t, delay) == t

\* line 233: retry_time = datetime.now() + timedelta(seconds=retry_delay)
RetryTime(t, delay) == t + delay

ScheduleRetry(q, fp, att, mx) ==
    IF ScheduleRetryDrops(att, mx)
    THEN q
    ELSE Append(q, RetryTask(fp, att, mx, RetryTime(now, config.retry_delay)))

ScheduleRetryEffect(fp, att, mx) ==
    /\ retry_queue' = ScheduleRetry(retry_queue, fp, att, mx)
    /\ terminal_logged' = IF ScheduleRetryDrops(att, mx)
                          THEN Inc(terminal_logged, fp) ELSE terminal_logged
    /\ queued_ever' = IF Len(retry_queue') > Len(retry_queue)
                      THEN queued_ever \cup
                           {[filepath |-> retry_queue'[Len(retry_queue')].filepath,
                             attempt |-> retry_queue'[Len(retry_queue')].attempt,
                             max_retries |-> retry_queue'[Len(retry_queue')].max_retries]}
                      ELSE queued_ever

NoScheduleRetry == UNCHANGED <<retry_queue, terminal_logged, queued_ever>>

(***************************************************************************)
(* The orchestrator call made by a worker (_process_video_sync): its       *)
(* result is an input of the pool, success or failure (a failure result    *)
(* or an exception, which _process_video_sync turns into a failure result).*)
(***************************************************************************)
OrchResults == {TRUE, FALSE}

\* _process_single_file: (success, result) returned for an orchestrator result.
ProcessSingleFile(orchok) == orchok

\* The names bound in _process_single_retry_task when it reaches
\* "_processed_files.add(task.filepath)": the function imports log_message
\* only, and the module has no global _processed_files.
RetryTaskNames == {"log_message"}

\* _process_single_retry_task: the success flag it returns.  On a successful
\* orchestrator result it evaluates _processed_files, which raises NameError
\* when the name is unbound; the except clause returns (False, ...).
ProcessSingleRetryTask(orchok) ==
    IF orchok
    THEN "_processed_files" \in RetryTaskNames
    ELSE FALSE

\* Whether the retry execution added the path to watcher._processed_files.
RetryTaskRecords(orchok) == orchok /\ "_processed_files" \in RetryTaskNames

\* _process_retry_tasks_concurrently, line 161: requeue after a retry.
RetryRequeues(success, att, mx) == ~success /\ att < mx

\* Mutant: the requeue passes the failed task's own attempt number.
RequeueAttemptSame(att) == att

\* line 163: the attempt number of the requeued task.
RequeueAttempt(att) == att + 1

(***************************************************************************)
(* process_file_concurrent(filepath), called by thread c.                  *)
(***************************************************************************)
\* line 252: the membership test, made without holding self._lock.
PFC_Check(c, p) ==
    /\ callers[c].pc = "idle"
    /\ callers' = [callers EXCEPT ![c] =
                     [pc |-> IF p \in processing_files THEN "skipped" ELSE "checked",
                      path |-> p]]
    /\ UNCHANGED <<processing_files, retry_queue, pool, batch, retry_thread, now,
                   config, processed_files>>
    /\ UNCHANGED poolHist

\* lines 265-289: add under the lock, read max_retries, submit, return True.
PFC_Submit(c) ==
    /\ callers[c].pc = "checked"
    /\ processing_files' = processing_files \cup {callers[c].path}
    /\ pool' = Submit(pool, Run("cb", callers[c].path, 1, config.max_retries,
                                "queued", FALSE, FALSE))
    /\ callers' = [callers EXCEPT ![c].pc = "returned"]
    /\ first_submits' = Inc(first_submits, callers[c].path)
    /\ UNCHANGED <<retry_queue, batch, retry_thread, now, config, processed_files>>
    /\ UNCHANGED <<invoked, orch_ok, completed, terminal_logged, queued_ever, requeues>>

(***************************************************************************)
(* A worker of the executor.                                               *)
(***************************************************************************)
\* A free worker takes a queued run and calls the orchestrator.
StartRun(r) ==
    /\ r \in RunsOf(pool)
    /\ r.st = "queued"
    /\ Busy(pool) < max_workers
    /\ pool' = Replace(pool, r, [r EXCEPT !.st = "running"])
    /\ invoked' = Inc(invoked, r.filepath)
    /\ UNCHANGED <<processing_files, retry_queue, callers, batch, retry_thread, now,
                   config, processed_files>>
    /\ UNCHANGED <<first_submits, orch_ok, completed, terminal_logged, queued_ever,
                   requeues>>

\* _process_single_file returns in a run of process_file_concurrent; the
\* worker then runs handle_result up to its finally clause (lines 278-283).
FinishCallbackRun(r, orchok) ==
    /\ r \in RunsOf(pool)
    /\ r.kind = "cb" /\ r.st = "running"
    /\ pool' = Replace(pool, r, [r EXCEPT !.st = "finally", !.orch = orchok,
                                          !.success = ProcessSingleFile(orchok)])
    /\ processed_files' = IF ProcessSingleFile(orchok)
                          THEN processed_files \cup {r.filepath} ELSE processed_files
    /\ IF ProcessSingleFile(orchok)
       THEN NoScheduleRetry
       ELSE ScheduleRetryEffect(r.filepath, FirstRetryAttempt, r.max_retries)
    /\ orch_ok' = IF orchok THEN Inc(orch_ok, r.filepath) ELSE orch_ok
    /\ completed' = Inc(completed, r.filepath)
    /\ UNCHANGED <<processing_files, callers, batch, retry_thread, now, config>>
    /\ UNCHANGED <<invoked, first_submits, requeues>>

\* handle_result, lines 284-286: the finally clause discards the path.
DiscardCallbackRun(r) ==
    /\ r \in RunsOf(pool)
    /\ r.kind = "cb" /\ r.st = "finally"
    /\ pool' = Remove(pool, r)
    /\ processing_files' = processing_files \ {r.filepath}
    /\ UNCHANGED <<retry_queue, callers, batch, retry_thread, now, config,
                   processed_files>>
    /\ UNCHANGED poolHist

\* _process_single_file returns in a run of process_files_batch.
FinishBatchRun(r, orchok) ==
    /\ r \in RunsOf(pool)
    /\ r.kind = "batch" /\ r.st = "running"
    /\ pool' = Replace(pool, r, [r EXCEPT !.st = "done", !.orch = orchok,
                                          !.success = ProcessSingleFile(orchok)])
    /\ processed_files' = IF ProcessSingleFile(orchok)
                          THEN processed_files \cup {r.filepath} ELSE processed_files
    /\ orch_ok' = IF orchok THEN Inc(orch_ok, r.filepath) ELSE orch_ok
    /\ completed' = Inc(completed, r.filepath)
    /\ UNCHANGED <<processing_files, retry_queue, callers, batch, retry_thread, now,
                   config>>
    /\ UNCHANGED <<invoked, first_submits, terminal_logged, queued_ever, requeues>>

\* _process_single_retry_task returns.
FinishRetryRun(r, orchok) ==
    /\ r \in RunsOf(pool)
    /\ r.kind = "retry" /\ r.st = "running"
    /\ pool' = Replace(pool, r, [r EXCEPT !.st = "done", !.orch = orchok,
                                          !.success = ProcessSingleRetryTask(orchok)])
    /\ processed_files' = IF RetryTaskRecords(orchok)
                          THEN processed_files \cup {r.filepath} ELSE processed_files
    /\ orch_ok' = IF orchok THEN Inc(orch_ok, r.filepath) ELSE orch_ok
    /\ completed' = Inc(completed, r.filepath)
    /\ UNCHANGED <<processing_files, retry_queue, callers, batch, retry_thread, now,
                   config>>
    /\ UNCHANGED <<invoked, first_submits, terminal_logged, queued_ever, requeues>>

(***************************************************************************)
(* process_files_batch(filepaths), called by one thread.                   *)
(***************************************************************************)
BatchAdvance(b) ==
    [b EXCEPT !.i = @ + 1,
              !.pc = IF b.i + 1 > Len(b.files) THEN "wait" ELSE "loop"]

\* lines 346-357: the call starts and reads max_retries.
BatchStart(fps) ==
    /\ batch.pc = "idle"
    /\ batch' = [pc |-> "loop", files |-> fps, i |-> 1, max_retries |-> config.max_retries]
    /\ UNCHANGED <<processing_files, retry_queue, pool, callers, retry_thread, now,
                   config, processed_files>>
    /\ UNCHANGED poolHist

\* line 362: the membership test, made without holding self._lock.
BatchCheck ==
    /\ batch.pc = "loop"
    /\ batch' = IF batch.files[batch.i] \in processing_files
                THEN BatchAdvance(batch)
                ELSE [batch EXCEPT !.pc = "add"]
    /\ UNCHANGED <<processing_files, retry_queue, pool, callers, retry_thread, now,
                   config, processed_files>>
    /\ UNCHANGED poolHist

\* lines 363-366: add under the lock and submit.
BatchSubmit ==
    /\ batch.pc = "add"
    /\ processing_files' = processing_files \cup {batch.files[batch.i]}
    /\ pool' = Submit(pool, Run("batch", batch.files[batch.i], 1, batch.max_retries,
                                "queued", FALSE, FALSE))
    /\ batch' = BatchAdvance(batch)
    /\ first_submits' = Inc(first_submits, batch.files[batch.i])
    /\ UNCHANGED <<retry_queue, callers, retry_thread, now, config, processed_files>>
    /\ UNCHANGED <<invoked, orch_ok, completed, terminal_logged, queued_ever, requeues>>

\* lines 369-381: as_completed yields a finished run; a failure is scheduled.
BatchHandle(r) ==
    /\ batch.pc = "wait"
    /\ r \in RunsOf(pool)
    /\ r.kind = "batch" /\ r.st = "done"
    /\ \A q \in RunsOf(pool) : ~(q.kind = "batch" /\ q.st = "finally")
    /\ pool' = Replace(pool, r, [r EXCEPT !.st = "finally"])
    /\ IF r.success
       THEN NoScheduleRetry
       ELSE ScheduleRetryEffect(r.filepath, FirstRetryAttempt, r.max_retries)
    /\ UNCHANGED <<processing_files, callers, batch, retry_thread, now, config,
                   processed_files>>
    /\ UNCHANGED <<invoked, first_submits, orch_ok, completed, requeues>>

\* lines 382-384: the finally clause discards the path.
BatchDiscard(r) ==
    /\ batch.pc = "wait"
    /\ r \in RunsOf(pool)
    /\ r.kind = "batch" /\ r.st = "finally"
    /\ pool' = Remove(pool, r)
    /\ processing_files' = processing_files \ {r.filepath}
    /\ UNCHANGED <<retry_queue, callers, batch, retry_thread, now, config,
                   processed_files>>
    /\ UNCHANGED poolHist

\* lines 386-387: every future handled, the call returns.
BatchReturn ==
    /\ batch.pc = "wait"
    /\ \A q \in RunsOf(pool) : q.kind # "batch"
    /\ batch' = [batch EXCEPT !.pc = "done"]
    /\ UNCHANGED <<processing_files, retry_queue, pool, callers, retry_thread, now,
                   config, processed_files>>
    /\ UNCHANGED poolHist

(***************************************************************************)
(* _retry_processor_loop, the retry thread.                                *)
(***************************************************************************)
\* Mutant: a task counts as due one second before its retry_time.
DueEarly(task, t) == task.retry_time <= t + 1

\* line 106: task.retry_time <= current_time
Due(task, t) == task.retry_time <= t

ReadyTasks(q, t) == SelectSeq(q, LAMBDA task : Due(task, t))
WaitingTasks(q, t) == SelectSeq(q, LAMBDA task : ~Due(task, t))

RECURSIVE SubmitRetries(_, _)
SubmitRetries(pl, tasks) ==
    IF tasks = <<>> THEN pl
    ELSE SubmitRetries(
             Submit(pl, Run("retry", Head(tasks).filepath, Head(tasks).attempt,
                            Head(tasks).max_retries, "queued", FALSE, FALSE)),
             Tail(tasks))

\* lines 95-125 and 133-154: one pass of the loop drains the queue, puts the
\* tasks that are not due back and submits the due ones to the executor.
RetryScan ==
    /\ retry_thread = "scan"
    /\ retry_queue' = WaitingTasks(retry_queue, now)
    /\ pool' = SubmitRetries(pool, ReadyTasks(retry_queue, now))
    /\ retry_thread' = IF ReadyTasks(retry_queue, now) = <<>> THEN "scan" ELSE "wait"
    /\ UNCHANGED <<processing_files, callers, batch, now, config, processed_files>>
    /\ UNCHANGED poolHist

\* lines 157-167: as_completed yields a finished retry; the loop sleeps and
\* scans again once every retry of the pass has been handled.
RetryHandle(r) ==
    /\ retry_thread = "wait"
    /\ r \in RunsOf(pool)
    /\ r.kind = "retry" /\ r.st = "done"
    /\ pool' = Remove(pool, r)
    /\ IF RetryRequeues(r.success, r.attempt, r.max_retries)
       THEN ScheduleRetryEffect(r.filepath, RequeueAttempt(r.attempt), r.max_retries)
       ELSE NoScheduleRetry
    /\ requeues' = IF Len(retry_queue') > Len(retry_queue)
                   THEN requeues \cup
                        {[filepath |-> retry_queue'[Len(retry_queue')].filepath,
                          from |-> r.attempt,
                          to |-> retry_queue'[Len(retry_queue')].attempt,
                          orch |-> r.orch]}
                   ELSE requeues
    /\ retry_thread' = IF \E q \in RunsOf(pool') : q.kind = "retry"
                       THEN "wait" ELSE "scan"
    /\ UNCHANGED <<processing_files, callers, batch, now, config, processed_files>>
    /\ UNCHANGED <<invoked, first_submits, orch_ok, completed>>

\* Time passes.  Only a queued task that is not yet due reads the clock.
Tick ==
    /\ \E i \in 1..Len(retry_queue) : ~Due(retry_queue[i], now)
    /\ now' = now + 1
    /\ UNCHANGED <<processing_files, retry_queue, pool, callers, batch, retry_thread,
                   config, processed_files>>
    /\ UNCHANGED poolHist

(***************************************************************************)
(* The processor after get_concurrent_processor() has built it and started *)
(* its retry thread, under a configuration with max_retries >= 1.          *)
(***************************************************************************)
PoolInit ==
    /\ processing_files = {}
    /\ retry_queue = <<>>
    /\ pool = EmptyBag
    /\ callers = [c \in Callers |-> [pc |-> "idle", path |-> "a.mp4"]]
    /\ batch = [pc |-> "idle", files |-> <<>>, i |-> 1, max_retries |-> 0]
    /\ retry_thread = "scan"
    /\ now = 0
    /\ config \in [max_retries : 1..MaxAttempts, retry_delay : {DefaultRetryDelay}]
    /\ processed_files = {}
    /\ invoked = Zero
    /\ first_submits = Zero
    /\ orch_ok = Zero
    /\ completed = Zero
    /\ terminal_logged = Zero
    /\ queued_ever = {}
    /\ requeues = {}

(***************************************************************************)
(* SubtitleHandler (utils/watcher.py).  Times are in tenths of a second.   *)
(***************************************************************************)
\* Bounds of the exploration.
MaxEvents == 2
MaxClock == 24
Kinds == {"created", "moved"}

\* Program constants, in tenths of a second.
CreatedDedupTime == 8
OtherDedupTime == 20
ExpireAfter == 50
ValidateSleep == 1
wait_time == 5

\* event_key = f"{filepath}_{event_type}": one key per (path, kind), since a
\* valid path ends in a video extension and a kind holds no underscore.
EventKey(p, k) == <<p, k>>

\* Mutant: no record is ever deleted.
PruneNothing(recent, t) == recent

\* lines 182-185: the records older than 5 s are deleted.
PruneExpired(recent, t) ==
    [key \in {x \in DOMAIN recent : ~(t - recent[x] > ExpireAfter)} |-> recent[key]]

\* lines 191-194
DedupTime(k) == IF k = "created" THEN CreatedDedupTime ELSE OtherDedupTime

\* Mutant: the repeat is never suppressed.
ShouldProcessEventNever(recent, p, k, t) == TRUE

\* _should_process_event: the value returned at time t.
ShouldProcessEvent(recent, p, k, t) ==
    ~(/\ EventKey(p, k) \in DOMAIN PruneExpired(recent, t)
      /\ t - PruneExpired(recent, t)[EventKey(p, k)] < DedupTime(k))

\* Mutant: the time of the entry is set at every call, suppressed or not.
RecentEventsAfterRefreshes(recent, p, k, t) ==
    [key \in DOMAIN PruneExpired(recent, t) \cup {EventKey(p, k)} |->
        IF key = EventKey(p, k) THEN t ELSE PruneExpired(recent, t)[key]]

\* _should_process_event: self.recent_events after the call at time t.
RecentEventsAfter(recent, p, k, t) ==
    IF ShouldProcessEvent(recent, p, k, t)
    THEN [key \in DOMAIN PruneExpired(recent, t) \cup {EventKey(p, k)} |->
             IF key = EventKey(p, k) THEN t ELSE PruneExpired(recent, t)[key]]
    ELSE PruneExpired(recent, t)

HandlerIdle == [pc |-> "idle", path |-> "", kind |-> "", wake |-> 0]

\* process_file has not been called yet.  call: the notification the frame
\* belongs to; results: one record per attempt made.
LoopIdle == [pc |-> "idle", call |-> 0, attempt |-> 0, max_retries |-> 0,
             retry_delay |-> 0, begun |-> 0, wake |-> 0, results |-> <<>>]

\* The observer delivers a create or move-destination notification.
Notify(p, k) ==
    /\ Len(evals) + Len(event_queue) + (IF handler.pc = "idle" THEN 0 ELSE 1) < MaxEvents
    /\ event_queue' = Append(event_queue, [path |-> p, kind |-> k, at |-> wclock])
    /\ UNCHANGED <<recent_events, handler_processing, handler, wclock, evals,
                   running, attempt_loop>>

\* on_created / on_moved, lines 151 and 165: the observer thread dispatches
\* the next notification; _is_valid_file accepts the file and sleeps 0.1 s,
\* or rejects it (wrong extension, unreadable) and the handler returns.
Dispatch(valid) ==
    /\ handler.pc = "idle"
    /\ event_queue # <<>>
    /\ event_queue' = Tail(event_queue)
    /\ IF valid
       THEN /\ handler' = [pc |-> "validated", path |-> Head(event_queue).path,
                           kind |-> Head(event_queue).kind,
                           wake |-> wclock + ValidateSleep]
            /\ evals' = Append(evals, [path |-> Head(event_queue).path,
                                       kind |-> Head(event_queue).kind,
                                       at |-> Head(event_queue).at, ev |-> 0,
                                       st |-> "validated"])
       ELSE /\ handler' = HandlerIdle
            /\ evals' = Append(evals, [path |-> Head(event_queue).path,
                                       kind |-> Head(event_queue).kind,
                                       at |-> Head(event_queue).at, ev |-> 0,
                                       st |-> "invalid"])
    /\ UNCHANGED <<recent_events, handler_processing, wclock, running,
                   attempt_loop>>

\* lines 152-156 / 166-170: the in-processing test and _should_process_event.
Evaluate ==
    /\ handler.pc = "validated"
    /\ wclock >= handler.wake
    /\ IF handler.path \in handler_processing
       THEN /\ handler' = HandlerIdle
            /\ evals' = [evals EXCEPT ![Len(evals)].st = "busy", ![Len(evals)].ev = wclock]
            /\ UNCHANGED <<recent_events, handler_processing>>
       ELSE /\ recent_events' =
                  RecentEventsAfter(recent_events, handler.path, handler.kind, wclock)
            /\ IF ShouldProcessEvent(recent_events, handler.path, handler.kind, wclock)
               THEN /\ handler_processing' = handler_processing \cup {handler.path}
                    /\ handler' = [handler EXCEPT !.pc = "settling",
                                                  !.wake = wclock + wait_time]
                    /\ evals' = [evals EXCEPT ![Len(evals)].st = "accepted",
                                              ![Len(evals)].ev = wclock]
               ELSE /\ handler' = HandlerIdle
                    /\ evals' = [evals EXCEPT ![Len(evals)].st = "suppressed",
                                              ![Len(evals)].ev = wclock]
                    /\ UNCHANGED handler_processing
    /\ UNCHANGED <<event_queue, wclock, running, attempt_loop>>

\* lines 158-159 / 172-173: after the settle delay, process_file is called.
CallProcessFile ==
    /\ handler.pc = "settling"
    /\ wclock >= handler.wake
    /\ handler' = [handler EXCEPT !.pc = "processing"]
    /\ evals' = [evals EXCEPT ![Len(evals)].st = "called"]
    /\ UNCHANGED <<recent_events, handler_processing, event_queue, wclock, running,
                   attempt_loop>>

\* lines 160 / 174: process_file returns, the path leaves processing_files.
ProcessFileReturns ==
    /\ handler.pc = "processing"
    /\ handler' = HandlerIdle
    /\ handler_processing' = handler_processing \ {handler.path}
    /\ UNCHANGED <<recent_events, event_queue, wclock, evals, running,
                   attempt_loop>>

\* A sleep of the handler (time.sleep) has run out: the handler goes on
\* before the clock moves.  A longer sleep is a longer process_file, whose
\* duration is free.
SleepOver == handler.pc \in {"validated", "settling"} /\ wclock >= handler.wake

\* The observer thread is idle and a notification waits: it dispatches it at
\* once (the thread blocks on the queue, lines 150 and 164 run on delivery).
DispatchDue == handler.pc = "idle" /\ event_queue # <<>>

\* Every notification has been handled.
AllHandled == Len(evals) = MaxEvents /\ handler.pc = "idle"

\* Time passes, from the first notification to the return of the last handler.
WTick ==
    /\ wclock < MaxClock
    /\ Len(evals) + Len(event_queue) > 0
    /\ ~SleepOver
    /\ ~DispatchDue
    /\ ~AllHandled
    /\ wclock' = wclock + 1
    /\ UNCHANGED <<recent_events, handler_processing, event_queue, handler, evals,
                   running, attempt_loop>>

\* _should_process_event called once at time wclock on a record of earlier
\* acceptances; the call's outcome and the record it found are noted.
ApplyShouldProcessEvent(p, k) ==
    /\ evals = <<>>
    /\ recent_events' = RecentEventsAfter(recent_events, p, k, wclock)
    /\ evals' = <<[path |-> p, kind |-> k, at |-> wclock, ev |-> wclock,
                   st |-> IF ShouldProcessEvent(recent_events, p, k, wclock)
                          THEN "accepted" ELSE "suppressed",
                   before |-> recent_events]>>
    /\ UNCHANGED <<handler_processing, event_queue, handler, wclock, running,
                   attempt_loop>>

\* Length of a stream of events evaluated one after the other.
MaxStream == MaxEvents + 1

\* _should_process_event called for the next event of a stream, at time
\* wclock, on the record the calls before it have left.
StreamEvent(p, k) ==
    /\ Len(evals) < MaxStream
    /\ recent_events' = RecentEventsAfter(recent_events, p, k, wclock)
    /\ evals' = Append(evals,
                   [path |-> p, kind |-> k, at |-> wclock, ev |-> wclock,
                    st |-> IF ShouldProcessEvent(recent_events, p, k, wclock)
                           THEN "accepted" ELSE "suppressed",
                    before |-> recent_events])
    /\ UNCHANGED <<handler_processing, event_queue, handler, wclock, running,
                   attempt_loop>>

\* line 178: time.time() has moved on between two events of the stream.
StreamTick ==
    /\ wclock < MaxClock
    /\ Len(evals) < MaxStream
    /\ wclock' = wclock + 1
    /\ UNCHANGED <<recent_events, handler_processing, event_queue, handler, evals,
                   running, attempt_loop>>

\* Largest age, in tenths of a second, of a record the call may find.
MaxAge == 60

\* The records a handler can hold at time MaxAge: the times at which events
\* of a path were accepted, of any age, since records are deleted only
\* when a later event is evaluated.
DedupInputInit ==
    /\ recent_events \in
           UNION {[keys -> 0..MaxAge] : keys \in SUBSET (SharedPaths \X Kinds)}
    /\ handler_processing = {}
    /\ event_queue = <<>>
    /\ handler = HandlerIdle
    /\ wclock = MaxAge
    /\ evals = <<>>
    /\ running = TRUE
    /\ attempt_loop = LoopIdle

\* The handler after start_watcher.
WatcherInit ==
    /\ recent_events = <<>>
    /\ handler_processing = {}
    /\ event_queue = <<>>
    /\ handler = HandlerIdle
    /\ wclock = 0
    /\ evals = <<>>
    /\ running = TRUE
    /\ attempt_loop = LoopIdle

(***************************************************************************)
(* DanmuClient (danmu/danmu_client.py).  One thread calls the client; the  *)
(* server's answer to a request is free.                                   *)
(***************************************************************************)
MaxCalls == 2
MaxTime == 900
Ids == {1, 2}
ClockSteps == {300}
BaseUrls == {"", "http://danmu"}
KeywordSets == {{}, {"use_cache"}}

\* Class constants, lines 32-34.
LIBRARY_CACHE_TTL == 300
SOURCES_CACHE_TTL == 600
EPISODES_CACHE_TTL == 600

\* The methods the class defines.
ClientMethods ==
    {"__init__", "_load_config", "set_base_url", "get_base_url", "set_token",
     "get_token", "_make_request", "get_library_list", "get_anime_sources",
     "get_source_episodes", "get_episode_danmaku",
     "get_danmaku_by_title_and_episode"}

CachedOps == {"get_library_list", "get_anime_sources", "get_source_episodes"}
ClientOps == CachedOps \cup {"get_episode_danmaku"}

\* The keyword parameters in the signature of each operation.
Parameters(op) ==
    CASE op = "get_library_list" -> {}
      [] op = "get_anime_sources" -> {"anime_id"}
      [] op = "get_source_episodes" -> {"source_id"}
      [] op = "get_episode_danmaku" -> {"episode_id"}
      [] OTHER -> {}

\* What the server answers: a JSON list, a JSON object holding 'count',
\* another JSON value, a non-2xx status, a body that is not JSON.
Responses == {"list", "dict_with_count", "other_json", "http_error", "not_json"}

\* _make_request: raise_for_status and response.json() raise, and both
\* except clauses re-raise.
MakeRequestRaises(resp) == resp \in {"http_error", "not_json"}

\* The isinstance test on the decoded body, lines 162, 190, 218, 246.
ExpectedShape(op) == IF op = "get_episode_danmaku" THEN "dict_with_count" ELSE "list"

\* The keys of the dict an operation returns.
ResultKeys(op, ok) ==
    IF ~ok THEN {"success", "error"}
    ELSE CASE op = "get_library_list" -> {"success", "animes"}
           [] op = "get_anime_sources" -> {"success", "sources"}
           [] op = "get_source_episodes" -> {"success", "episodes"}
           [] OTHER -> {"success", "danmaku"}

\* One call client.op(key, **kw) with base URL url and server answer resp:
\* whether a request was sent, how the call ended, and why.
CallOutcome(op, kw, url, resp) ==
    IF op \notin ClientMethods
    THEN [requested |-> FALSE, outcome |-> "raised", cause |-> "AttributeError",
          keys |-> {}]
    ELSE IF ~(kw \subseteq Parameters(op))
    THEN [requested |-> FALSE, outcome |-> "raised", cause |-> "TypeError",
          keys |-> {}]
    ELSE IF url = ""
    THEN [requested |-> FALSE, outcome |-> "raised", cause |-> "no_base_url",
          keys |-> {}]
    ELSE IF MakeRequestRaises(resp)
    THEN [requested |-> TRUE, outcome |-> "raised", cause |-> resp, keys |-> {}]
    ELSE IF resp = ExpectedShape(op)
    THEN [requested |-> TRUE, outcome |-> "success", cause |-> "none",
          keys |-> ResultKeys(op, TRUE)]
    ELSE [requested |-> TRUE, outcome |-> "failure", cause |-> "shape",
          keys |-> ResultKeys(op, FALSE)]

\* The call is made and logged.  No operation reads or writes the caches.
ClientCall(op, key, kw, resp) ==
    /\ Len(call_log) < MaxCalls
    /\ call_log' = Append(call_log,
           [op |-> op, key |-> key, kw |-> kw, at |-> cclock,
            requested |-> CallOutcome(op, kw, base_url, resp).requested,
            outcome |-> CallOutcome(op, kw, base_url, resp).outcome,
            cause |-> CallOutcome(op, kw, base_url, resp).cause,
            from_cache |-> "from_cache" \in CallOutcome(op, kw, base_url, resp).keys])
    /\ http_requests' = http_requests +
           (IF CallOutcome(op, kw, base_url, resp).requested THEN 1 ELSE 0)
    /\ UNCHANGED <<base_url, library_cache, sources_cache, episodes_cache, cclock>>

GetLibraryList(kw, resp) == ClientCall("get_library_list", 0, kw, resp)

GetAnimeSources(anime_id, kw, resp) ==
    ClientCall("get_anime_sources", anime_id, kw, resp)

GetSourceEpisodes(source_id, kw, resp) ==
    ClientCall("get_source_episodes", source_id, kw, resp)

GetEpisodeDanmaku(episode_id, resp) ==
    ClientCall("get_episode_danmaku", episode_id, {}, resp)

\* client.clear_cache(), as test_cache.py line 104 calls it.
ClearCache == ClientCall("clear_cache", 0, {}, "list")

\* set_base_url
SetBaseUrl(u) ==
    /\ u # base_url
    /\ Len(call_log) < MaxCalls
    /\ base_url' = u
    /\ UNCHANGED <<library_cache, sources_cache, episodes_cache, cclock,
                   http_requests, call_log>>

\* Time passes between two calls.
CTick ==
    /\ cclock < MaxTime
    /\ Len(call_log) \in 1..(MaxCalls - 1)
    /\ \E d \in ClockSteps : cclock' = cclock + d
    /\ UNCHANGED <<base_url, library_cache, sources_cache, episodes_cache,
                   http_requests, call_log>>

\* __init__, lines 58-60; the configuration file holds no base_url.
ClientInit ==
    /\ base_url = ""
    /\ library_cache = [data |-> "None", timestamp |-> 0]
    /\ sources_cache = <<>>
    /\ episodes_cache = <<>>
    /\ cclock = 0
    /\ http_requests = 0
    /\ call_log = <<>>

(***************************************************************************)
(* JsonToXmlConverter (danmu/json_to_xml.py).  Strings are sequences of    *)
(* one-character strings, so that split, join, strip and isdigit are       *)
(* computed.                                                               *)
(***************************************************************************)
MaxPLen == 6
MaxComments == 2
PChars == {"1", ".", ",", " ", "[", "]"}
Digits == {"0", "1", "2", "3", "4", "5", "6", "7", "8", "9"}
Whitespace == {" "}

Range(s) == {s[i] : i \in 1..Len(s)}

\* str.split(sep): the fields between the separators, at least one field.
RECURSIVE Split(_, _)
Split(s, sep) ==
    IF \A i \in 1..Len(s) : s[i] # sep
    THEN <<s>>
    ELSE LET k == CHOOSE i \in 1..Len(s) :
                      s[i] = sep /\ \A j \in 1..(i - 1) : s[j] # sep
         IN <<SubSeq(s, 1, k - 1)>> \o Split(SubSeq(s, k + 1, Len(s)), sep)

\* sep.join(parts)
RECURSIVE Join(_, _)
Join(parts, sep) ==
    IF parts = <<>> THEN <<>>
    ELSE IF Len(parts) = 1 THEN parts[1]
    ELSE parts[1] \o <<sep>> \o Join(Tail(parts), sep)

\* str.strip()
RECURSIVE Strip(_)
Strip(s) ==
    IF s = <<>> THEN s
    ELSE IF s[1] \in Whitespace THEN Strip(Tail(s))
    ELSE IF s[Len(s)] \in Whitespace THEN Strip(SubSeq(s, 1, Len(s) - 1))
    ELSE s

\* str.isdigit()
IsDigit(s) == s # <<>> /\ Range(s) \subseteq Digits

\* str(n) for a natural number n
RECURSIVE IntToStr(_)
IntToStr(n) ==
    IF n < 10 THEN <<CHOOSE d \in Digits :
                       d = <<"0", "1", "2", "3", "4", "5", "6", "7", "8", "9">>[n + 1]>>
    ELSE IntToStr(n \div 10) \o IntToStr(n % 10)

\* The default font size '25' of lines 115 and 118.
DefaultFontSize == <<"2", "5">>

\* lines 105-109, mutated: no field ends the core fields.
CoreEndIgnoresBrackets(parts) == Len(parts) + 1

\* lines 105-109: the index of the first field holding both '[' and ']',
\* len(p_parts) when there is none (indices from 1 here).
CoreEnd(parts) ==
    IF \E i \in 1..Len(parts) : {"[", "]"} \subseteq Range(parts[i])
    THEN CHOOSE i \in 1..Len(parts) :
             /\ {"[", "]"} \subseteq Range(parts[i])
             /\ \A j \in 1..(i - 1) : ~({"[", "]"} \subseteq Range(parts[j]))
    ELSE Len(parts) + 1

\* line 117: not core_parts[2] or not core_parts[2].strip().isdigit()
FontSizeInvalid(field) == field = <<>> \/ ~IsDigit(Strip(field))

\* lines 113-118: the repair of the core fields.
RepairCore(core) ==
    IF Len(core) = 3
    THEN <<core[1], core[2], DefaultFontSize, core[3]>>
    ELSE IF Len(core) = 4 /\ FontSizeInvalid(core[3])
    THEN [core EXCEPT ![3] = DefaultFontSize]
    ELSE core

\* generate_dandan_xml, lines 101-120: final_p_attr for the 'p' string p.
RepairPAttr(p) ==
    Join(RepairCore(SubSeq(Split(p, ","), 1, CoreEnd(Split(p, ",")) - 1))
         \o SubSeq(Split(p, ","), CoreEnd(Split(p, ",")), Len(Split(p, ","))),
         ",")

\* xml_escape, lines 41-54.
EscapeChar(c) ==
    CASE c = "&" -> <<"&", "a", "m", "p", ";">>
      [] c = "<" -> <<"&", "l", "t", ";">>
      [] c = ">" -> <<"&", "g", "t", ";">>
      [] c = "\"" -> <<"&", "q", "u", "o", "t", ";">>
      [] c = "'" -> <<"&", "a", "p", "o", "s", ";">>
      [] OTHER -> <<c>>

RECURSIVE XmlEscape(_)
XmlEscape(text) ==
    IF text = <<>> THEN <<>> ELSE EscapeChar(Head(text)) \o XmlEscape(Tail(text))

\* Python values of a decoded JSON comment: str, int, None.
PyStr(cs) == [t |-> "str", v |-> cs]
PyInt(n) == [t |-> "int", v |-> IntToStr(n)]
PyNone == [t |-> "none", v |-> <<>>]
\* An object whose __str__ raises.
PyUnprintable == [t |-> "object", v |-> <<>>]

\* str(x)
Str(x) == IF x.t = "none" THEN <<"N", "o", "n", "e">> ELSE x.v

\* dict.get(key, default)
Get(d, key, default) == IF key \in DOMAIN d THEN d[key] ELSE default

\* The first of the text keys the comment holds, line 240.
TextKeys == <<"m", "text", "content", "message", "danmaku">>

FirstTextKey(d) ==
    CHOOSE i \in 1..Len(TextKeys) :
        TextKeys[i] \in DOMAIN d /\ \A j \in 1..(i - 1) : TextKeys[j] \notin DOMAIN d

\* _normalize_single_comment: text of a dict comment, lines 239-243.
DictText(d) ==
    IF \E i \in 1..Len(TextKeys) : TextKeys[i] \in DOMAIN d
    THEN Str(d[TextKeys[FirstTextKey(d)]])
    ELSE <<>>

\* _normalize_single_comment: p of a dict comment, lines 249-262.
DictP(d) ==
    IF "p" \in DOMAIN d THEN Str(d["p"])
    ELSE Join(<<Str(Get(d, "time", Get(d, "t", PyInt(0)))),
                Str(Get(d, "mode", Get(d, "type", PyInt(1)))),
                Str(Get(d, "fontsize", Get(d, "size", PyInt(25)))),
                Str(Get(d, "color", Get(d, "c", PyInt(16777215)))),
                Str(Get(d, "timestamp", Get(d, "ts", PyInt(0)))),
                Str(Get(d, "pool", PyInt(0))),
                Str(Get(d, "user_id", Get(d, "uid", PyInt(0)))),
                Str(Get(d, "cid", Get(d, "id", PyInt(0))))>>, ",")

\* A dropped comment (None).
Dropped == [p |-> <<>>, m |-> <<>>, none |-> TRUE]
Record(p, m) == [p |-> p, m |-> m, none |-> FALSE]

\* _normalize_single_comment
NormalizeSingleComment(d) ==
    IF DictText(d) = <<>> THEN Dropped ELSE Record(DictP(d), DictText(d))

\* _normalize_array_comment
NormalizeArrayComment(a) ==
    IF Len(a) < 2 THEN Dropped
    ELSE IF Len(a) >= 5
    THEN Record(Join([i \in 1..(Len(a) - 1) |-> Str(a[i])], ","), Str(a[Len(a)]))
    ELSE Record(Join(<<Str(a[1]), Str(a[2]),
                       IF Len(a) > 2 THEN Str(a[3]) ELSE Str(PyInt(25)),
                       IF Len(a) > 3 THEN Str(a[4]) ELSE Str(PyInt(16777215)),
                       <<"0">>, <<"0">>, <<"0">>, <<"0">>>>, ","),
                Str(a[Len(a)]))

\* lines 219-223: any other comment, at index i (from 0).
NormalizeScalarComment(x, i) ==
    Record(Join(<<IntToStr(i * 5), <<"1">>, <<"2", "5">>, IntToStr(16777215),
                  <<"0">>, <<"0">>, <<"0">>, IntToStr(i)>>, ","),
           Str(x))

\* str(comment) of line 222 raises.
Raises(c) == c.shape = "scalar" /\ c.x = PyUnprintable

\* lines 212-230: a raw comment is a dict, a list or anything else; an
\* exception raised on the way is caught at line 228 and nothing is appended
\* for the comment.
NormalizeOne(c, i) ==
    CASE c.shape = "dict" -> NormalizeSingleComment(c.d)
      [] c.shape = "array" -> NormalizeArrayComment(c.a)
      [] c.shape = "scalar" /\ Raises(c) -> Dropped
      [] OTHER -> NormalizeScalarComment(c.x, i)

\* _normalize_comments giving up on the whole list at the first comment it
\* cannot normalize.
NormalizeCommentsFailsBatch(comments) ==
    IF \E i \in 1..Len(comments) : NormalizeOne(comments[i], i - 1).none
    THEN <<>>
    ELSE [i \in 1..Len(comments) |-> NormalizeOne(comments[i], i - 1)]

\* _normalize_comments: the comments that are not None, in order.
NormalizeComments(comments) ==
    SelectSeq([i \in 1..Len(comments) |-> NormalizeOne(comments[i], i - 1)],
              LAMBDA r : ~r.none)

\* generate_dandan_xml: the lines of the document, one record per element.
Element(tag, p, text) == [tag |-> tag, p |-> p, text |-> text]

DandanHeader(comments) ==
    <<Element("chatserver", <<>>, <<"d", "a", "n", "m", "u">>),
      Element("chatid", <<>>, <<"0">>),
      Element("mission", <<>>, <<"0">>),
      Element("maxlimit", <<>>, IntToStr(Len(comments))),
      Element("source", <<>>, <<"k", "u", "y", "u", "n">>)>>

GenerateDandanXml(comments) ==
    DandanHeader(comments) \o
    [i \in 1..Len(comments) |->
        Element("d", RepairPAttr(comments[i].p), XmlEscape(comments[i].m))]

\* The keyword parameters of convert_json_to_xml, lines 126-132.
ConvertParameters == {"json_data", "output_path", "episode_id", "use_dandan_format"}

\* convert_json_to_xml(comments, output_path, **kw) for a list of comments:
\* what it returns and the document it writes.  A keyword that is no
\* parameter makes the call raise TypeError.
NoDocument == <<>>
ConvertJsonToXml(comments, kw) ==
    IF ~(kw \subseteq ConvertParameters)
    THEN [ok |-> FALSE, raised |-> TRUE, written |-> FALSE, doc |-> NoDocument]
    ELSE IF comments = <<>>
    THEN [ok |-> FALSE, raised |-> FALSE, written |-> FALSE, doc |-> NoDocument]
    ELSE [ok |-> TRUE, raised |-> FALSE, written |-> TRUE,
          doc |-> GenerateDandanXml(NormalizeComments(comments))]

\* The inputs: every 'p' string up to MaxPLen characters; every list of up
\* to MaxComments comments of the three shapes.
PExamples ==
    {<<"1", "2", ".", "3", ",", "1", ",", "1", "6", "7", "7", "7", "2", "1", "5">>,
     <<"1", "2", ".", "3", ",", "1", ",", ",", "1", "6", "7", "7", "7", "2", "1", "5">>}
PInputs == UNION {[1..n -> PChars] : n \in 0..MaxPLen} \cup PExamples

TextValues == {PyStr(<<>>), PyStr(<<"a", "<">>), PyNone}
PValues == {PyStr(<<"1", ",", "1", ",", "1">>)}
One == PyStr(<<"1">>)

DictComments ==
    {[shape |-> "dict", d |-> d, a |-> <<>>, x |-> PyNone] :
        d \in UNION {[K -> TextValues] : K \in SUBSET {"m", "text"}}
            \cup UNION {{[k \in K \cup {"p"} |->
                              IF k = "p" THEN pv ELSE t[k]] : pv \in PValues, t \in [K -> TextValues]}
                        : K \in SUBSET {"m", "text"}}}

ArrayComments ==
    {[shape |-> "array", d |-> <<>>, a |-> a, x |-> PyNone] :
        a \in {<<t>> : t \in TextValues} \cup {<<One, t>> : t \in TextValues}
              \cup {<<One, One, One, One, t>> : t \in TextValues}}

ScalarComments ==
    {[shape |-> "scalar", d |-> <<>>, a |-> <<>>, x |-> x] :
        x \in {PyStr(<<>>), PyStr(<<"a", "<">>), PyInt(7), PyUnprintable}}

RawComments == DictComments \cup ArrayComments \cup ScalarComments
CommentInputs == UNION {[1..n -> RawComments] : n \in 0..MaxComments}

KeywordChoices == {{"use_dandan_format"}, {"use_dandan_format", "provider_name"}}

\* generate_dandan_xml is applied to a comment whose 'p' is p_attr.
ApplyRepair ==
    /\ "p" \in xml_done /\ "repair" \notin xml_done
    /\ p_out' = RepairPAttr(p_attr)
    /\ xml_done' = xml_done \cup {"repair"}
    /\ UNCHANGED <<p_attr, comments_in, normalized, xml_result, tree_xml>>

\* _normalize_comments is applied to comments_in.
ApplyNormalize ==
    /\ "comments" \in xml_done /\ "normalize" \notin xml_done
    /\ normalized' = NormalizeComments(comments_in)
    /\ xml_done' = xml_done \cup {"normalize"}
    /\ UNCHANGED <<p_attr, p_out, comments_in, xml_result, tree_xml>>

\* convert_json_to_xml is applied to comments_in.
ApplyConvert(kw) ==
    /\ "comments" \in xml_done /\ "convert" \notin xml_done
    /\ xml_result' = ConvertJsonToXml(comments_in, kw)
    /\ xml_done' = xml_done \cup {"convert"}
    /\ UNCHANGED <<p_attr, p_out, comments_in, normalized, tree_xml>>

\* No input is given to the converter.
XmlInit ==
    /\ p_attr = <<>>
    /\ p_out = <<>>
    /\ comments_in = <<>>
    /\ normalized = <<>>
    /\ xml_result = ConvertJsonToXml(<<>>, {})
    /\ xml_done = {}
    /\ tree_xml = NoDocument

\* One 'p' string, or one list of comments, is given to the converter.
XmlInputInit ==
    /\ p_out = <<>>
    /\ normalized = <<>>
    /\ xml_result = ConvertJsonToXml(<<>>, {})
    /\ tree_xml = NoDocument
    /\ \/ xml_done = {"p"} /\ p_attr \in PInputs /\ comments_in = <<>>
       \/ xml_done = {"comments"} /\ p_attr = <<>> /\ comments_in \in CommentInputs

(***************************************************************************)
(* Regular expressions of the re module, as far as the program uses them:  *)
(* a pattern is a sequence of items, matched by backtracking in the order  *)
(* re tries them.  A match is the sequence of the positions where its      *)
(* items start, followed by the position where it ends; <<>> is no match.  *)
(***************************************************************************)
UpperCase == <<"A", "B", "C", "D", "E", "F", "G", "H", "I", "J", "K", "L", "M",
               "N", "O", "P", "Q", "R", "S", "T", "U", "V", "W", "X", "Y", "Z">>
LowerCase == <<"a", "b", "c", "d", "e", "f", "g", "h", "i", "j", "k", "l", "m",
               "n", "o", "p", "q", "r", "s", "t", "u", "v", "w", "x", "y", "z">>
\* Characters outside ASCII are named by their code point: U7B2C is the
\* ordinal prefix of lines 19 and 117, U96C6 the episode suffix, U8BDD and
\* U671F the other two suffixes, U5267 and U540D the two characters of the
\* title of the end-to-end scenario; U2013 and U2014 are the long dashes.
Hanzi == {"U7B2C", "U96C6", "U8BDD", "U671F", "U5267", "U540D"}
Dashes == {"-", "U2013", "U2014"}
Punctuation == {" ", "-", "_", ".", ",", "(", ")", "[", "]"}

\* \w, \s, \d and . over the characters of the inputs
WordChars == Range(UpperCase) \cup Range(LowerCase) \cup Digits \cup Hanzi \cup {"_"}
AnyChar == WordChars \cup Punctuation \cup Dashes

\* str.lower()
LowerChar(c) ==
    IF c \in Range(UpperCase)
    THEN LowerCase[CHOOSE i \in 1..Len(UpperCase) : UpperCase[i] = c]
    ELSE c
Lower(s) == [i \in 1..Len(s) |-> LowerChar(s[i])]

\* int(digits)
RECURSIVE StrToInt(_)
StrToInt(s) ==
    IF s = <<>> THEN 0
    ELSE 10 * StrToInt(SubSeq(s, 1, Len(s) - 1))
         + (CHOOSE d \in 0..9 : IntToStr(d) = <<s[Len(s)]>>)

\* needle in hay
Contains(hay, needle) ==
    \E i \in 1..(Len(hay) - Len(needle) + 1) :
        SubSeq(hay, i, i + Len(needle) - 1) = needle

\* s[a:b] with Python's clamping, a and b counted from 0
Slice(s, a, b) ==
    SubSeq(s, (IF a < 0 THEN 0 ELSE a) + 1, IF b > Len(s) THEN Len(s) ELSE b)

\* Pattern items.  Rep: a character class repeated min..max times (max < 0:
\* no upper limit), greedy or lazy.  Alt: literal alternatives tried in
\* order, letters compared without case.  OrEnd: (?:c|$).
Rep(set, min, max, greedy) ==
    [k |-> "rep", set |-> set, min |-> min, max |-> max, greedy |-> greedy]
Chr(set) == Rep(set, 1, 1, TRUE)
Star(set) == Rep(set, 0, -1, TRUE)
Plus(set) == Rep(set, 1, -1, TRUE)
Opt(set) == Rep(set, 0, 1, TRUE)
LazyStar(set) == Rep(set, 0, -1, FALSE)
LazyPlus(set) == Rep(set, 1, -1, FALSE)
Alt(words) == [k |-> "alt", words |-> words]
OrEnd(set) == [k |-> "orend", set |-> set]
Bol == [k |-> "^"]
Eol == [k |-> "$"]
WordBoundary == [k |-> "\\b"]

\* The number of characters of s from pos on that are in set.
RunLen(s, pos, set) ==
    Cardinality({j \in pos..Len(s) : \A i \in pos..j : s[i] \in set})

IsWordChar(s, i) == i \in 1..Len(s) /\ s[i] \in WordChars

Smaller(a, b) == IF a < b THEN a ELSE b

RECURSIVE MatchFrom(_, _, _, _)
RECURSIVE TryLen(_, _, _, _, _, _)
RECURSIVE TryWord(_, _, _, _, _)

\* The match re prefers for items k.. of the pattern at position pos of s.
MatchFrom(items, k, s, pos) ==
    IF k > Len(items) THEN <<pos>>
    ELSE
      CASE items[k].k = "rep" ->
             IF Smaller(RunLen(s, pos, items[k].set),
                        IF items[k].max < 0 THEN Len(s) ELSE items[k].max) < items[k].min
             THEN <<>>
             ELSE TryLen(items, k, s, pos,
                         IF items[k].greedy
                         THEN Smaller(RunLen(s, pos, items[k].set),
                                      IF items[k].max < 0 THEN Len(s) ELSE items[k].max)
                         ELSE items[k].min,
                         Smaller(RunLen(s, pos, items[k].set),
                                 IF items[k].max < 0 THEN Len(s) ELSE items[k].max))
        [] items[k].k = "alt" -> TryWord(items, k, s, pos, 1)
        [] items[k].k = "orend" ->
             IF pos <= Len(s) /\ s[pos] \in items[k].set
                /\ MatchFrom(items, k + 1, s, pos + 1) # <<>>
             THEN <<pos>> \o MatchFrom(items, k + 1, s, pos + 1)
             ELSE IF pos = Len(s) + 1 /\ MatchFrom(items, k + 1, s, pos) # <<>>
             THEN <<pos>> \o MatchFrom(items, k + 1, s, pos)
             ELSE <<>>
        [] items[k].k = "^" ->
             IF pos = 1 /\ MatchFrom(items, k + 1, s, pos) # <<>>
             THEN <<pos>> \o MatchFrom(items, k + 1, s, pos)
             ELSE <<>>
        [] items[k].k = "$" ->
             IF pos = Len(s) + 1 /\ MatchFrom(items, k + 1, s, pos) # <<>>
             THEN <<pos>> \o MatchFrom(items, k + 1, s, pos)
             ELSE <<>>
        [] OTHER ->
             IF IsWordChar(s, pos - 1) # IsWordChar(s, pos)
                /\ MatchFrom(items, k + 1, s, pos) # <<>>
             THEN <<pos>> \o MatchFrom(items, k + 1, s, pos)
             ELSE <<>>

\* Item k taking n characters, then fewer (greedy) or more (lazy) up to hi.
TryLen(items, k, s, pos, n, hi) ==
    IF n < items[k].min \/ n > hi THEN <<>>
    ELSE IF MatchFrom(items, k + 1, s, pos + n) # <<>>
    THEN <<pos>> \o MatchFrom(items, k + 1, s, pos + n)
    ELSE TryLen(items, k, s, pos, IF items[k].greedy THEN n - 1 ELSE n + 1, hi)

\* The alternatives of item k from the j-th on.
TryWord(items, k, s, pos, j) ==
    IF j > Len(items[k].words) THEN <<>>
    ELSE IF /\ pos + Len(items[k].words[j]) - 1 <= Len(s)
            /\ Lower(SubSeq(s, pos, pos + Len(items[k].words[j]) - 1))
                   = Lower(items[k].words[j])
            /\ MatchFrom(items, k + 1, s, pos + Len(items[k].words[j])) # <<>>
    THEN <<pos>> \o MatchFrom(items, k + 1, s, pos + Len(items[k].words[j]))
    ELSE TryWord(items, k, s, pos, j + 1)

\* re.match(pattern, s)
Match(items, s) == MatchFrom(items, 1, s, 1)

\* re.search(pattern, s) from position pos on: the leftmost match.
RECURSIVE SearchFrom(_, _, _)
SearchFrom(items, s, pos) ==
    IF pos > Len(s) + 1 THEN <<>>
    ELSE IF MatchFrom(items, 1, s, pos) # <<>> THEN MatchFrom(items, 1, s, pos)
    ELSE SearchFrom(items, s, pos + 1)

Search(items, s) == SearchFrom(items, s, 1)

\* Where a match ends, and the text of its k-th item.
MatchEnd(m) == m[Len(m)]
Group(s, m, k) == SubSeq(s, m[k], m[k + 1] - 1)

\* re.sub(pattern, repl, s) for a pattern that matches no empty string.
RECURSIVE SubFrom(_, _, _, _)
SubFrom(items, repl, s, pos) ==
    IF pos > Len(s) THEN <<>>
    ELSE IF MatchFrom(items, 1, s, pos) # <<>> /\ MatchEnd(MatchFrom(items, 1, s, pos)) > pos
    THEN repl \o SubFrom(items, repl, s, MatchEnd(MatchFrom(items, 1, s, pos)))
    ELSE <<s[pos]>> \o SubFrom(items, repl, s, pos + 1)

Sub(items, repl, s) == SubFrom(items, repl, s, 1)

\* re.sub with each pattern of a list in turn.
RECURSIVE SubEach(_, _, _)
SubEach(patterns, repl, s) ==
    IF patterns = <<>> THEN s
    ELSE SubEach(Tail(patterns), repl, Sub(patterns[1], repl, s))

\* str.strip(chars)
RECURSIVE StripChars(_, _)
StripChars(s, chars) ==
    IF s = <<>> THEN s
    ELSE IF s[1] \in chars THEN StripChars(Tail(s), chars)
    ELSE IF s[Len(s)] \in chars THEN StripChars(SubSeq(s, 1, Len(s) - 1), chars)
    ELSE s

(***************************************************************************)
(* VideoFileParser (utils/video_parser.py).  The input is a file name      *)
(* without directory.                                                      *)
(***************************************************************************)
MaxTokens == 2

\* self.episode_patterns, lines 15-32, and the item that is the episode
\* group of each (the season group of the first is item 2).
EpisodePatterns ==
    <<<<Chr({"S", "s"}), Plus(Digits), Chr({"E", "e"}), Plus(Digits)>>,
      <<Chr({"U7B2C"}), Star(Whitespace), Plus(Digits), Star(Whitespace), Chr({"U96C6"})>>,
      <<Chr({"E", "e"}), Chr({"P", "p"}), Star(Whitespace), Plus(Digits)>>,
      <<Plus(Digits), Star(Whitespace), Chr({"U96C6"})>>,
      <<Chr({"["}), Plus(Digits), Chr({"]"})>>,
      <<Plus(Digits), Star(Whitespace), Chr({"U8BDD"})>>,
      <<Chr({"_"}), Plus(Digits), OrEnd({"_"})>>,
      <<WordBoundary, Rep(Digits, 1, 3, TRUE), WordBoundary>>>>
EpisodeGroup == <<4, 3, 4, 1, 2, 1, 2, 2>>

\* self.filter_keywords, lines 35-41
FilterKeywords ==
    <<<<"1", "0", "8", "0", "p">>, <<"7", "2", "0", "p">>,
      <<"4", "8", "0", "p">>, <<"4", "k">>, <<"2", "1", "6", "0", "p">>,
      <<"x", "2", "6", "4">>, <<"x", "2", "6", "5">>, <<"h", "2", "6", "4">>,
      <<"h", "2", "6", "5">>, <<"b", "l", "u", "r", "a", "y">>,
      <<"w", "e", "b", "r", "i", "p">>, <<"h", "d", "t", "v">>,
      <<"d", "v", "d", "r", "i", "p">>, <<"a", "a", "c">>, <<"a", "c", "3">>,
      <<"d", "t", "s">>, <<"f", "l", "a", "c">>, <<"m", "k", "v">>,
      <<"m", "p", "4">>, <<"a", "v", "i">>, <<"m", "o", "v">>>>

\* episode_indicators, line 353
EpisodeIndicators ==
    <<<<"U7B2C">>, <<"U96C6">>, <<"e", "p">>, <<"e">>, <<"U8BDD">>, <<"-">>,
      <<"_">>, <<" ">>>>

\* A season or None.
NoSeason == [some |-> FALSE, n |-> 0]
Season(n) == [some |-> TRUE, n |-> n]

\* os.path.splitext
LastDot(s) == CHOOSE i \in 0..Len(s) :
                  /\ i > 0 => s[i] = "."
                  /\ \A j \in (i + 1)..Len(s) : s[j] # "."
HasExt(s) == LastDot(s) > 0 /\ \E j \in 1..(LastDot(s) - 1) : s[j] # "."
Stem(s) == IF HasExt(s) THEN SubSeq(s, 1, LastDot(s) - 1) ELSE s
Ext(s) == IF HasExt(s) THEN SubSeq(s, LastDot(s), Len(s)) ELSE <<>>

\* _detect_content_type: movie_patterns, lines 108-112.
MoviePatterns ==
    <<<<Plus(AnyChar), Star(Whitespace), Chr({"("}), Rep(Digits, 4, 4, TRUE), Chr({")"}),
        Star(Whitespace), Opt(Dashes), Star(Whitespace)>>,
      <<Plus(AnyChar), Plus(Whitespace), Rep(Digits, 4, 4, TRUE), Star(Whitespace),
        Chr(Dashes), Star(Whitespace)>>,
      <<Plus(AnyChar), Plus(Whitespace), Rep(Digits, 4, 4, TRUE), Star(Whitespace), Eol>>>>

\* _detect_content_type: 'movie' when a movie pattern is found; every other
\* path (a tv pattern found, or none) returns 'tv_series'.
DetectContentType(filename) ==
    IF \E i \in 1..Len(MoviePatterns) : Search(MoviePatterns[i], filename) # <<>>
    THEN "movie" ELSE "tv_series"

\* _is_valid_episode_number for the match m of the last episode pattern.
IsValidEpisodeNumber(episode_num, m, filename) ==
    /\ 1 <= episode_num /\ episode_num <= 999
    /\ \A i \in 1..Len(FilterKeywords) :
           ~Contains(Lower(Slice(filename, m[1] - 1 - 10, m[1] - 1))
                         \o SubSeq(filename, m[1], MatchEnd(m) - 1)
                         \o Lower(Slice(filename, MatchEnd(m) - 1, MatchEnd(m) - 1 + 10)),
                     FilterKeywords[i])
    /\ \/ \E i \in 1..Len(EpisodeIndicators) :
              \/ Contains(Lower(Slice(filename, m[1] - 1 - 10, m[1] - 1)),
                          EpisodeIndicators[i])
              \/ Contains(Lower(Slice(filename, MatchEnd(m) - 1, MatchEnd(m) - 1 + 10)),
                          EpisodeIndicators[i])
       \/ (10 <= episode_num /\ episode_num <= 99)

NoEpisodeInfo == [found |-> FALSE, season |-> NoSeason, episode |-> 0]
EpisodeInfo(season, episode) == [found |-> TRUE, season |-> season, episode |-> episode]

\* lines 320-323: the first match of the bare-number pattern that is valid.
RECURSIVE FirstValidNumber(_, _)
FirstValidNumber(filename, pos) ==
    IF SearchFrom(EpisodePatterns[8], filename, pos) = <<>> THEN NoEpisodeInfo
    ELSE IF IsValidEpisodeNumber(
                StrToInt(Group(filename, SearchFrom(EpisodePatterns[8], filename, pos), 2)),
                SearchFrom(EpisodePatterns[8], filename, pos), filename)
    THEN EpisodeInfo(NoSeason,
             StrToInt(Group(filename, SearchFrom(EpisodePatterns[8], filename, pos), 2)))
    ELSE FirstValidNumber(filename,
                          MatchEnd(SearchFrom(EpisodePatterns[8], filename, pos)))

\* lines 316-325: the patterns after the first, in order, from the i-th on.
RECURSIVE EpisodeOnly(_, _)
EpisodeOnly(filename, i) ==
    IF i = Len(EpisodePatterns) THEN FirstValidNumber(filename, 1)
    ELSE IF Search(EpisodePatterns[i], filename) # <<>>
    THEN EpisodeInfo(NoSeason,
             StrToInt(Group(filename, Search(EpisodePatterns[i], filename), EpisodeGroup[i])))
    ELSE EpisodeOnly(filename, i + 1)

\* _extract_episode_info
ExtractEpisodeInfo(filename) ==
    IF Search(EpisodePatterns[1], filename) # <<>>
    THEN EpisodeInfo(
             Season(StrToInt(Group(filename, Search(EpisodePatterns[1], filename), 2))),
             StrToInt(Group(filename, Search(EpisodePatterns[1], filename), 4)))
    ELSE EpisodeOnly(filename, 2)

\* quality_patterns of _extract_series_name, lines 383-390.
SeriesQualityPatterns ==
    <<<<WordBoundary, Alt(
        <<<<"1", "0", "8", "0", "p">>, <<"7", "2", "0", "p">>,
          <<"4", "8", "0", "p">>, <<"4", "k">>, <<"2", "1", "6", "0", "p">>>>), WordBoundary>>,
      <<WordBoundary, Alt(
        <<<<"x", "2", "6", "4">>, <<"x", "2", "6", "5">>,
          <<"h", "2", "6", "4">>, <<"h", "2", "6", "5">>>>), WordBoundary>>,
      <<WordBoundary, Alt(
        <<<<"b", "l", "u", "r", "a", "y">>, <<"w", "e", "b", "r", "i", "p">>,
          <<"h", "d", "t", "v">>, <<"d", "v", "d", "r", "i", "p">>,
          <<"b", "d", "r", "i", "p">>>>), WordBoundary>>,
      <<WordBoundary, Alt(
        <<<<"a", "a", "c">>, <<"a", "c", "3">>, <<"d", "t", "s">>,
          <<"f", "l", "a", "c">>, <<"m", "p", "3">>>>), WordBoundary>>,
      <<Chr({"["}), LazyStar(AnyChar), Chr({"]"})>>,
      <<Chr({"("}), LazyStar(AnyChar), Chr({")"})>>>>

\* [-_\s]+
Separators == <<Plus({"-", "_"} \cup Whitespace)>>

\* lines 396-397 / 287-288: separators to one space, strip(' -_').
Tidy(s) == StripChars(Sub(Separators, <<" ">>, s), {" ", "-", "_"})

\* _extract_series_name, lines 399-409: the conservative cleaning.
ConservativeName(filename) ==
    Tidy(Sub(<<Chr({"E", "e"}), Chr({"P", "p"}), Star(Whitespace), Plus(Digits)>>, <<>>,
         Sub(EpisodePatterns[1], <<>>,
         Sub(EpisodePatterns[2], <<>>, filename))))

\* _extract_series_name, lines 370-397: the first cleaning.
FirstCleaning(filename, info) ==
    Tidy(SubEach(SeriesQualityPatterns, <<>>,
         SubEach(EpisodePatterns, <<>>,
                 IF info.season.some /\ info.season.n # 0
                 THEN Sub(EpisodePatterns[1], <<>>, filename)
                 ELSE filename)))

\* _extract_series_name, mutated: nothing is removed from the file name.
ExtractSeriesNameKeepsAll(filename, info) == filename

\* _extract_series_name; <<>> stands for None.
ExtractSeriesName(filename, info) ==
    IF Len(FirstCleaning(filename, info)) < 2
    THEN ConservativeName(filename)
    ELSE FirstCleaning(filename, info)

\* What parse_video_filename returns; ok = FALSE stands for None.
NotParsed ==
    [ok |-> FALSE, series_name |-> <<>>, season |-> NoSeason, episode |-> 0,
     content_type |-> "", movie_name |-> <<>>, year |-> 0, extra_info |-> <<>>,
     file_ext |-> <<>>]

\* _parse_tv_series_filename
ParseTvSeriesFilename(filename_without_ext, file_ext) ==
    IF /\ ExtractEpisodeInfo(filename_without_ext).found
       /\ ExtractSeriesName(filename_without_ext,
                            ExtractEpisodeInfo(filename_without_ext)) # <<>>
    THEN [ok |-> TRUE,
          series_name |-> Strip(ExtractSeriesName(filename_without_ext,
                                    ExtractEpisodeInfo(filename_without_ext))),
          season |-> ExtractEpisodeInfo(filename_without_ext).season,
          episode |-> ExtractEpisodeInfo(filename_without_ext).episode,
          content_type |-> "tv_series", movie_name |-> <<>>, year |-> 0,
          extra_info |-> <<>>, file_ext |-> file_ext]
    ELSE NotParsed

\* quality_patterns of _clean_movie_name, lines 275-281.
MovieQualityPatterns ==
    <<<<WordBoundary, Alt(
        <<<<"1", "0", "8", "0", "p">>, <<"7", "2", "0", "p">>,
          <<"4", "8", "0", "p">>, <<"4", "k">>, <<"2", "1", "6", "0", "p">>,
          <<"u", "h", "d">>, <<"h", "d">>>>), WordBoundary>>,
      <<WordBoundary, Alt(
        <<<<"x", "2", "6", "4">>, <<"x", "2", "6", "5">>,
          <<"h", "2", "6", "4">>, <<"h", "2", "6", "5">>,
          <<"h", "e", "v", "c">>>>), WordBoundary>>,
      <<WordBoundary, Alt(
        <<<<"b", "l", "u", "r", "a", "y">>, <<"w", "e", "b", "r", "i", "p">>,
          <<"h", "d", "t", "v">>, <<"d", "v", "d", "r", "i", "p">>,
          <<"b", "d", "r", "i", "p">>, <<"w", "e", "b", "-", "d", "l">>>>), WordBoundary>>,
      <<WordBoundary, Alt(
        <<<<"a", "a", "c">>, <<"a", "c", "3">>, <<"d", "t", "s">>,
          <<"f", "l", "a", "c">>, <<"m", "p", "3">>>>), WordBoundary>>,
      <<Chr({"["}), LazyStar(AnyChar), Chr({"]"})>>>>

\* _clean_movie_name
CleanMovieName(movie_name) == Tidy(SubEach(MovieQualityPatterns, <<>>, movie_name))

\* movie_pattern, line 187: the name is item 2, the year item 5, the rest
\* item 10.  loose_pattern, line 225: the name is item 2, the year item 4.
MoviePattern ==
    <<Bol, LazyPlus(AnyChar), Star(Whitespace), Chr({"("}), Rep(Digits, 4, 4, TRUE),
      Chr({")"}), Star(Whitespace), Opt({"-"}), Star(Whitespace), LazyStar(AnyChar), Eol>>
LoosePattern ==
    <<Bol, LazyPlus(AnyChar), LazyStar(AnyChar), Rep(Digits, 4, 4, TRUE),
      LazyStar(AnyChar), Eol>>

\* lines 196 and 233, mutated: no year is accepted.
YearNeverInRange(year) == FALSE

\* lines 196 and 233: 1900 <= year <= 2030
YearInRange(year) == 1900 <= year /\ year <= 2030

MovieResult(name, year, extra, file_ext) ==
    [ok |-> TRUE, series_name |-> name, season |-> NoSeason, episode |-> 1,
     content_type |-> "movie", movie_name |-> name, year |-> year,
     extra_info |-> extra, file_ext |-> file_ext]

\* _parse_movie_filename
ParseMovieFilename(filename_without_ext, file_ext) ==
    IF Match(MoviePattern, filename_without_ext) # <<>>
    THEN IF /\ YearInRange(StrToInt(Group(filename_without_ext,
                                          Match(MoviePattern, filename_without_ext), 5)))
            /\ Len(CleanMovieName(Strip(Group(filename_without_ext,
                       Match(MoviePattern, filename_without_ext), 2)))) >= 2
         THEN MovieResult(
                  CleanMovieName(Strip(Group(filename_without_ext,
                      Match(MoviePattern, filename_without_ext), 2))),
                  StrToInt(Group(filename_without_ext,
                                 Match(MoviePattern, filename_without_ext), 5)),
                  Strip(Group(filename_without_ext,
                              Match(MoviePattern, filename_without_ext), 10)),
                  file_ext)
         ELSE NotParsed
    ELSE IF /\ Match(LoosePattern, filename_without_ext) # <<>>
            /\ YearInRange(StrToInt(Group(filename_without_ext,
                                          Match(LoosePattern, filename_without_ext), 4)))
            /\ Len(CleanMovieName(Strip(Group(filename_without_ext,
                       Match(LoosePattern, filename_without_ext), 2)))) >= 2
    THEN MovieResult(
             CleanMovieName(Strip(Group(filename_without_ext,
                 Match(LoosePattern, filename_without_ext), 2))),
             StrToInt(Group(filename_without_ext,
                            Match(LoosePattern, filename_without_ext), 4)),
             <<>>, file_ext)
    ELSE NotParsed

\* parse_video_filename(filepath) with content_type = None
ParseVideoFilename(filename) ==
    IF DetectContentType(Stem(filename)) = "movie"
    THEN IF ParseMovieFilename(Stem(filename), Ext(filename)).ok
         THEN ParseMovieFilename(Stem(filename), Ext(filename))
         ELSE ParseTvSeriesFilename(Stem(filename), Ext(filename))
    ELSE IF ParseTvSeriesFilename(Stem(filename), Ext(filename)).ok
         THEN ParseTvSeriesFilename(Stem(filename), Ext(filename))
         ELSE ParseMovieFilename(Stem(filename), Ext(filename))

\* The file names: those of the scenarios, and every name made of up to
\* MaxTokens of the tokens below followed by '.mp4'.
FileSeriesS01E07 ==
    <<"N", "a", "m", "e", " ", "-", " ", "S", "0", "1", "E", "0", "7", " ", "-", " ", "U7B2C", " ", "7", " ", "U96C6", ".", "m", "p", "4">>
FileMovie2024 ==
    <<"M", "o", "v", "i", "e", " ", "T", "i", "t", "l", "e", " ", "(", "2", "0", "2", "4", ")", " ", "-", " ", "2", "1", "6", "0", "p", ".", "m", "k", "v">>
FileSeriesS01E01 ==
    <<"U5267", "U540D", " ", "-", " ", "S", "0", "1", "E", "0", "1", " ", "-", " ", "U7B2C", " ", "1", " ", "U96C6", ".", "m", "p", "4">>
FileOrdinalOnly ==
    <<"U5267", "U540D", " ", "U7B2C", "1", "U96C6", ".", "m", "p", "4">>
FileMovieOfTitle ==
    <<"U5267", "U540D", " ", "(", "2", "0", "2", "4", ")", ".", "m", "k", "v">>
ScenarioFiles ==
    {FileSeriesS01E07, FileMovie2024, FileSeriesS01E01, FileOrdinalOnly, FileMovieOfTitle}

NameTokens ==
    {<<"N", "a", "m", "e">>,
     <<" ">>,
     <<" ", "-", " ">>,
     <<"S", "0", "1", "E", "0", "7">>,
     <<"U7B2C", " ", "7", " ", "U96C6">>,
     <<"(", "2", "0", "2", "4", ")">>,
     <<"2", "1", "6", "0", "p">>,
     <<"0", "7">>}

RECURSIVE Concat(_)
Concat(ts) == IF ts = <<>> THEN <<>> ELSE Head(ts) \o Concat(Tail(ts))

TokenFiles ==
    {Concat(ts) \o <<".", "m", "p", "4">> : ts \in UNION {[1..n -> NameTokens] : n \in 1..MaxTokens}}

FileNames == ScenarioFiles \cup TokenFiles

\* parse_video_filename is applied to the file name.
ApplyParse ==
    /\ ~parsed
    /\ video_info' = ParseVideoFilename(file_name)
    /\ parsed' = TRUE
    /\ UNCHANGED file_name

\* No file name is given to the parser.
ParserInit ==
    /\ file_name = <<>>
    /\ video_info = NotParsed
    /\ parsed = TRUE

\* One file name is given to the parser.
ParserInputInit ==
    /\ file_name \in FileNames
    /\ video_info = NotParsed
    /\ parsed = FALSE

(***************************************************************************)
(* DanmuDownloader (danmu/danmu_downloader.py).  process_video_file runs   *)
(* on one file name; the answers of the DanmuClient are chosen as each     *)
(* call is made.  A file is written beside the video, so a path is a file  *)
(* name.                                                                   *)
(***************************************************************************)
MaxSources == 2

\* config.py: DANMU_SOURCES, as keys and values in order.
DanmuSourceKeys ==
    <<<<"i", "q", "i", "y", "i">>,
      <<"b", "i", "l", "i", "b", "i", "l", "i">>,
      <<"t", "e", "n", "c", "e", "n", "t">>, <<"y", "o", "u", "k", "u">>>>
DanmuSourceIds ==
    <<<<"I", "q", "i", "y", "i", "I", "D">>,
      <<"B", "i", "l", "i", "b", "i", "l", "i", "I", "D">>,
      <<"T", "e", "n", "c", "e", "n", "t", "I", "D">>,
      <<"Y", "o", "u", "k", "u", "I", "D">>>>

\* str.capitalize()
UpperChar(c) ==
    IF c \in Range(LowerCase)
    THEN UpperCase[CHOOSE i \in 1..Len(LowerCase) : LowerCase[i] = c]
    ELSE c
Capitalize(s) ==
    IF s = <<>> THEN <<>> ELSE <<UpperChar(s[1])>> \o Lower(Tail(s))

\* DANMU_SOURCES.get(provider_name.lower(), f"{provider_name.capitalize()}ID")
Suffix(provider_name) ==
    IF \E i \in 1..Len(DanmuSourceKeys) : DanmuSourceKeys[i] = Lower(provider_name)
    THEN DanmuSourceIds[CHOOSE i \in 1..Len(DanmuSourceKeys) :
                            DanmuSourceKeys[i] = Lower(provider_name)]
    ELSE Capitalize(provider_name) \o <<"I", "D">>

\* What the client answers.
Title == <<"U5267", "U540D">>
OtherTitle == <<"N", "a", "m", "e">>
Anime(id, title, season) == [animeId |-> id, title |-> title, season |-> season]
NoAnime == Anime(0, <<>>, 0)
Catalogs ==
    {<<>>,
     <<Anime(1, Title, 1)>>,
     <<Anime(2, Title, 2), Anime(1, Title, 1)>>,
     <<Anime(3, OtherTitle, 1)>>}
LibraryAnswers ==
    {[success |-> FALSE, animes |-> <<>>]}
        \cup {[success |-> TRUE, animes |-> a] : a \in Catalogs}

Providers ==
    {<<"b", "i", "l", "i", "b", "i", "l", "i">>,
     <<"t", "e", "n", "c", "e", "n", "t">>}
Source(id, provider_name) == [sourceId |-> id, providerName |-> provider_name]
SourceLists ==
    {[i \in 1..Len(ps) |-> Source(i, ps[i])] :
        ps \in UNION {[1..n -> Providers] : n \in 0..MaxSources}}
SourcesAnswers ==
    {[success |-> FALSE, sources |-> <<>>]}
        \cup {[success |-> TRUE, sources |-> s] : s \in SourceLists}

Episode(id, title) == [episodeId |-> id, episodeTitle |-> title]
EpisodeLists ==
    {<<>>,
     <<Episode(1, <<"U7B2C", "1", "U96C6">>)>>,
     <<Episode(1, <<"E", "P", "0", "1">>), Episode(2, <<"U7B2C", "2", "U96C6">>)>>}
EpisodesAnswers ==
    {[success |-> FALSE, episodes |-> <<>>]}
        \cup {[success |-> TRUE, episodes |-> e] : e \in EpisodeLists}

Comment(p, m) ==
    [shape |-> "dict", d |-> [k \in {"p", "m"} |-> IF k = "p" THEN PyStr(p) ELSE PyStr(m)],
     a |-> <<>>, x |-> PyNone]
ThreeComments ==
    <<Comment(<<"1", ",", "1", ",", "2", "5", ",", "1">>, <<"a">>),
      Comment(<<"2", ",", "1", ",", "2", "5", ",", "1">>, <<"b">>),
      Comment(<<"3", ",", "1", ",", "2", "5", ",", "1">>, <<"c">>)>>
Danmaku(count, comments) == [none |-> FALSE, count |-> count, comments |-> comments]
NoDanmaku == [none |-> TRUE, count |-> 0, comments |-> <<>>]
DanmakuAnswers ==
    {[success |-> FALSE, danmaku |-> NoDanmaku],
     [success |-> TRUE, danmaku |-> Danmaku(0, <<>>)],
     [success |-> TRUE, danmaku |-> Danmaku(3, ThreeComments)]}

\* line 245 without the calls of lower().
TitleMatchesCaseSensitive(series_name, anime_title) ==
    \/ Contains(anime_title, series_name)
    \/ Contains(series_name, anime_title)

\* _search_anime, line 245
TitleMatches(series_name, anime_title) ==
    \/ Contains(Lower(anime_title), Lower(series_name))
    \/ Contains(Lower(series_name), Lower(anime_title))

\* _search_anime; NoAnime stands for None.
SearchAnime(series_name, season, library) ==
    LET matched_animes == SelectSeq(library.animes,
                                    LAMBDA a : TitleMatches(series_name, a.title))
    IN  IF ~library.success \/ matched_animes = <<>> THEN NoAnime
        ELSE IF season.some /\ \E i \in 1..Len(matched_animes) :
                                   matched_animes[i].season = season.n
        THEN matched_animes[CHOOSE i \in 1..Len(matched_animes) :
                 /\ matched_animes[i].season = season.n
                 /\ \A j \in 1..(i - 1) : matched_animes[j].season # season.n]
        ELSE matched_animes[1]

\* all_episodes[provider_name] = episodes: a dict keeps the place of a key
\* it already holds.
Put(collected, provider_name, episodes) ==
    IF \E i \in 1..Len(collected) : collected[i].provider_name = provider_name
    THEN [i \in 1..Len(collected) |->
             IF collected[i].provider_name = provider_name
             THEN [provider_name |-> provider_name, episodes |-> episodes]
             ELSE collected[i]]
    ELSE Append(collected, [provider_name |-> provider_name, episodes |-> episodes])

\* _get_episodes, lines 297-315: the sources from the i-th on.
RECURSIVE CollectEpisodes(_, _, _, _)
CollectEpisodes(sources, answers, i, collected) ==
    IF i > Len(sources) THEN collected
    ELSE CollectEpisodes(sources, answers, i + 1,
             IF answers[i].success /\ answers[i].episodes # <<>>
             THEN Put(collected, sources[i].providerName, answers[i].episodes)
             ELSE collected)

\* _get_episodes; <<>> stands for None.
GetEpisodes(listing, answers) ==
    IF ~listing.success \/ listing.sources = <<>> THEN <<>>
    ELSE CollectEpisodes(listing.sources, answers, 1, <<>>)

\* f"{n:02d}"
Pad2(n) == IF n < 10 THEN <<"0">> \o IntToStr(n) ELSE IntToStr(n)

\* The characters of a pattern that stand for themselves.
Literal(s) == [i \in 1..Len(s) |-> Chr({s[i], LowerChar(s[i]), UpperChar(s[i])})]

\* _match_episode: patterns, lines 349-356.
MatchPatterns(n) ==
    <<<<Chr({"U7B2C"}), Star(Whitespace)>> \o Literal(IntToStr(n))
          \o <<Star(Whitespace), Chr({"U96C6"})>>,
      <<Chr({"U7B2C"}), Star(Whitespace)>> \o Literal(Pad2(n))
          \o <<Star(Whitespace), Chr({"U96C6"})>>,
      Literal(<<"E", "P">>) \o <<Star(Whitespace)>> \o Literal(Pad2(n)),
      Literal(<<"E", "P">>) \o <<Star(Whitespace)>> \o Literal(IntToStr(n)),
      <<WordBoundary>> \o Literal(Pad2(n)) \o <<WordBoundary>>,
      <<WordBoundary>> \o Literal(IntToStr(n)) \o <<WordBoundary>>>>

TitleNames(episode_title, n) ==
    \E i \in 1..Len(MatchPatterns(n)) : Search(MatchPatterns(n)[i], episode_title) # <<>>

NoEpisode == Episode(0, <<>>)

\* _match_episode, lines 342-361: the first episode from the i-th on whose
\* title names the number; 0 when there is none.
RECURSIVE FirstNamed(_, _, _)
FirstNamed(episodes, target_episode_num, i) ==
    IF i > Len(episodes) THEN 0
    ELSE IF TitleNames(episodes[i].episodeTitle, target_episode_num) THEN i
    ELSE FirstNamed(episodes, target_episode_num, i + 1)

\* _match_episode with the lookup by position tried before the titles.
MatchEpisodeByPositionFirst(episodes, target_episode_num) ==
    LET named == FirstNamed(episodes, target_episode_num, 1)
    IN  IF 1 <= target_episode_num /\ target_episode_num <= Len(episodes)
        THEN episodes[target_episode_num]
        ELSE IF named # 0 THEN episodes[named]
        ELSE NoEpisode

\* _match_episode; NoEpisode stands for None.
MatchEpisode(episodes, target_episode_num) ==
    LET named == FirstNamed(episodes, target_episode_num, 1)
    IN  IF named # 0 THEN episodes[named]
        ELSE IF 1 <= target_episode_num /\ target_episode_num <= Len(episodes)
        THEN episodes[target_episode_num]
        ELSE NoEpisode

\* _download_danmu; NoDanmaku stands for None.
DownloadDanmu(danmu_result) ==
    IF ~danmu_result.success THEN NoDanmaku ELSE danmu_result.danmaku

\* line 152: not danmu_data
Falsy(danmu_data) == danmu_data.none

\* _get_correct_danmu_filepath: f"{season:02d}" raises TypeError for None.
NoPath == [raised |-> TRUE, path |-> <<>>]
GetCorrectDanmuFilepath(info, provider_name) ==
    IF ~info.season.some THEN NoPath
    ELSE [raised |-> FALSE,
          path |-> info.series_name \o <<" ", "-", " ", "S">> \o Pad2(info.season.n)
                   \o <<"E">> \o IntToStr(info.episode)
                   \o <<" ", "-", " ", "U7B2C", " ">> \o IntToStr(info.episode)
                   \o <<" ", "U96C6", "_">> \o Suffix(provider_name)
                   \o <<".", "x", "m", "l">>]

\* _save_danmu_xml, lines 430-435: the keywords of the call.
SaveKeywords == {"use_dandan_format", "provider_name"}

\* _save_danmu_xml: an exception of the converter is caught and gives False.
SaveDanmuXml(danmu_data) ==
    [ok |-> ConvertJsonToXml(danmu_data.comments, SaveKeywords).ok
            /\ ~ConvertJsonToXml(danmu_data.comments, SaveKeywords).raised,
     written |-> ConvertJsonToXml(danmu_data.comments, SaveKeywords).written,
     doc |-> ConvertJsonToXml(danmu_data.comments, SaveKeywords).doc]

\* lines 147, 154, 165, 177: the entries of failed_sources.
Failed(provider_name, why) == [provider |-> provider_name, why |-> why]

\* One pass of the loop of lines 139-177 for a source: what is appended to
\* downloaded_files and failed_sources, the file written, and how far the
\* source got.
ProcessSource(info, provider_name, episodes, danmu_result) ==
    LET target_episode == MatchEpisode(episodes, info.episode)
        danmu_data == DownloadDanmu(danmu_result)
        danmu_filepath == GetCorrectDanmuFilepath(info, provider_name)
        xml_result_ == SaveDanmuXml(danmu_data)
        step == [provider |-> provider_name, matched |-> FALSE, fetched |-> FALSE,
                 path |-> FALSE, saved |-> FALSE, comments |-> <<>>]
        none == [downloaded |-> <<>>, failed |-> <<>>, written |-> {}, step |-> step]
    IN  IF target_episode = NoEpisode
        THEN [none EXCEPT !.failed = <<Failed(provider_name, "no episode")>>]
        ELSE IF Falsy(danmu_data)
        THEN [none EXCEPT !.failed = <<Failed(provider_name, "download failed")>>,
                          !.step.matched = TRUE]
        ELSE IF danmu_filepath.raised
        THEN [none EXCEPT !.failed = <<Failed(provider_name, "TypeError")>>,
                          !.step.matched = TRUE, !.step.fetched = TRUE,
                          !.step.comments = danmu_data.comments]
        ELSE IF ~xml_result_.ok
        THEN [none EXCEPT !.failed = <<Failed(provider_name, "save failed")>>,
                          !.written = IF xml_result_.written
                                      THEN {[path |-> danmu_filepath.path,
                                             doc |-> xml_result_.doc]}
                                      ELSE {},
                          !.step.matched = TRUE, !.step.fetched = TRUE,
                          !.step.path = TRUE, !.step.comments = danmu_data.comments]
        ELSE [downloaded |-> <<[provider |-> provider_name,
                                file_path |-> danmu_filepath.path,
                                danmu_count |-> danmu_data.count]>>,
              failed |-> <<>>,
              written |-> {[path |-> danmu_filepath.path, doc |-> xml_result_.doc]},
              step |-> [provider |-> provider_name, matched |-> TRUE, fetched |-> TRUE,
                        path |-> TRUE, saved |-> TRUE, comments |-> danmu_data.comments]]

\* line 180, mutated: the result is a success whatever was downloaded.
OverallSuccessAlways(files) == TRUE

\* line 180: if downloaded_files
OverallSuccess(files) == files # <<>>

\* line 186: sum(file_info.get('danmu_count', 0) for file_info in downloaded_files)
RECURSIVE TotalDanmuCount(_)
TotalDanmuCount(files) ==
    IF files = <<>> THEN 0 ELSE Head(files).danmu_count + TotalDanmuCount(Tail(files))

\* The entries of failed_sources that the text of 'message' spells out:
\* the success message gives the two counts only (lines 181-183), the
\* failure message joins the entries (line 201).
MessageLists(success, failed) == IF success THEN <<>> ELSE failed

\* What process_video_file returns.  message is the kind of text, listed
\* the entries of failed_sources named in it.
Result(success, message, files, failed) ==
    [success |-> success, message |-> message, downloaded_files |-> files,
     failed_sources |-> failed, listed |-> MessageLists(success, failed),
     danmu_count |-> TotalDanmuCount(files)]
NoResult == Result(FALSE, "", <<>>, <<>>)

\* lines 180-204: the result built from the two lists of the loop.
ReturnResult(files, failed) ==
    Result(OverallSuccess(files),
           IF OverallSuccess(files) THEN "downloaded" ELSE "all sources failed",
           files, failed)

\* open(output_path, 'w'): the file at the path is replaced.
Write(fs, written) ==
    {f \in fs : \A w \in written : w.path # f.path} \cup written

\* The file names given to process_video_file.
FileSeriesS01E02 ==
    <<"U5267", "U540D", " ", "-", " ", "S", "0", "1", "E", "0", "2", ".", "m", "p", "4">>
FileNoEpisode ==
    <<"U5267", "U540D", ".", "m", "p", "4">>
OrchFiles ==
    {FileSeriesS01E01, FileSeriesS01E02, FileOrdinalOnly, FileMovieOfTitle, FileNoEpisode}

\* lines 98-104 without the test of line 99.
ParseFileNoTest ==
    /\ pc_process = "parse"
    /\ ApplyParse
    /\ pc_process' = "search"
    /\ UNCHANGED <<library_result, search_result, sources_result, episodes_results,
                   all_episodes, danmu_results, downloaded_files, failed_sources,
                   steps, written_files, result, match_result>>

\* lines 98-104: the file name is parsed.
ParseFile ==
    /\ pc_process = "parse"
    /\ ApplyParse
    /\ IF video_info'.ok
       THEN pc_process' = "search" /\ UNCHANGED result
       ELSE pc_process' = "done" /\ result' = Result(FALSE, "unparsable", <<>>, <<>>)
    /\ UNCHANGED <<library_result, search_result, sources_result, episodes_results,
                   all_episodes, danmu_results, downloaded_files, failed_sources,
                   steps, written_files, match_result>>

\* lines 118-124: _search_anime, the client answering answer.
SearchStep(answer) ==
    /\ pc_process = "search"
    /\ library_result' = answer
    /\ search_result' = SearchAnime(video_info.series_name, video_info.season, answer)
    /\ IF search_result' # NoAnime
       THEN pc_process' = "episodes" /\ UNCHANGED result
       ELSE pc_process' = "done" /\ result' = Result(FALSE, "no anime", <<>>, <<>>)
    /\ UNCHANGED <<sources_result, episodes_results, all_episodes, danmu_results,
                   downloaded_files, failed_sources, steps, written_files,
                   match_result>>

\* lines 127-133: _get_episodes, the client answering the listing of the
\* sources and, for each source, the listing of its episodes.
EpisodesStep(answer, answers) ==
    /\ pc_process = "episodes"
    /\ sources_result' = answer
    /\ episodes_results' = answers
    /\ all_episodes' = GetEpisodes(answer, answers)
    /\ IF all_episodes' # <<>>
       THEN pc_process' = "loop" /\ UNCHANGED result
       ELSE pc_process' = "done" /\ result' = Result(FALSE, "no episodes", <<>>, <<>>)
    /\ UNCHANGED <<library_result, search_result, danmu_results, downloaded_files,
                   failed_sources, steps, written_files, match_result>>

\* lines 139-177: the next source of all_episodes, the client answering
\* answer when the comments are asked for.
SourceStep(answer) ==
    /\ pc_process = "loop"
    /\ Len(steps) < Len(all_episodes)
    /\ LET source == all_episodes[Len(steps) + 1]
           out == ProcessSource(video_info, source.provider_name, source.episodes, answer)
       IN  /\ danmu_results' = Append(danmu_results,
                                      IF out.step.matched THEN answer
                                      ELSE [success |-> FALSE, danmaku |-> NoDanmaku])
           /\ downloaded_files' = downloaded_files \o out.downloaded
           /\ failed_sources' = failed_sources \o out.failed
           /\ steps' = Append(steps, out.step)
           /\ written_files' = Write(written_files, out.written)
           /\ match_result' = MatchEpisode(source.episodes, video_info.episode)
    /\ UNCHANGED <<library_result, search_result, sources_result, episodes_results,
                   all_episodes, pc_process, result>>

\* lines 180-204: the result after the loop.
ReturnStep ==
    /\ pc_process = "loop"
    /\ Len(steps) = Len(all_episodes)
    /\ result' = ReturnResult(downloaded_files, failed_sources)
    /\ pc_process' = "done"
    /\ UNCHANGED <<library_result, search_result, sources_result, episodes_results,
                   all_episodes, danmu_results, downloaded_files, failed_sources,
                   steps, written_files, match_result>>

\* lines 180-204 applied to two lists as the loop can leave them.
ApplyReturn ==
    /\ pc_process = "return"
    /\ result' = ReturnResult(downloaded_files, failed_sources)
    /\ pc_process' = "done"
    /\ UNCHANGED <<library_result, search_result, sources_result, episodes_results,
                   all_episodes, danmu_results, downloaded_files, failed_sources,
                   steps, written_files, match_result>>

\* A comment file left by an earlier run.
OldDocument == <<[tag |-> "d", text |-> <<"o", "l", "d">>]>>

\* The comment files of an earlier run of the same video: one per provider,
\* at the path _get_correct_danmu_filepath gives for it.
ExistingArtifacts(name) ==
    {[path |-> GetCorrectDanmuFilepath(ParseVideoFilename(name), pr).path,
      doc |-> OldDocument] : pr \in Providers}

\* process_video_file is called for a video whose comment files exist.
RerunInputInit ==
    /\ pc_process = "parse"
    /\ library_result = [success |-> FALSE, animes |-> <<>>]
    /\ search_result = NoAnime
    /\ sources_result = [success |-> FALSE, sources |-> <<>>]
    /\ episodes_results = <<>>
    /\ all_episodes = <<>>
    /\ danmu_results = <<>>
    /\ downloaded_files = <<>>
    /\ failed_sources = <<>>
    /\ steps = <<>>
    /\ file_name \in {FileSeriesS01E01, FileSeriesS01E02}
    /\ written_files = ExistingArtifacts(file_name)
    /\ result = NoResult
    /\ match_result = NoEpisode
    /\ video_info = NotParsed
    /\ parsed = FALSE

\* The reasons the loop records for a source (lines 147, 154, 165, 177).
FailureReasons == {"no episode", "download failed", "save failed", "TypeError"}

\* What the loop leaves for one source: an entry of downloaded_files or an
\* entry of failed_sources.
SourceOutcomes(provider_name) ==
    {[ok |-> TRUE,
      entry |-> [provider |-> provider_name, file_path |-> <<provider_name, ".xml">>,
                 danmu_count |-> n]] : n \in {0, 3}}
    \cup {[ok |-> FALSE, entry |-> Failed(provider_name, why)] : why \in FailureReasons}

\* The outcomes of the sources of all_episodes, one per provider name, in
\* the order of the loop.
LoopOutcomes ==
    UNION {{o \in [1..n -> UNION {SourceOutcomes(pr) : pr \in Providers}] :
               \A i, j \in 1..n : i # j => o[i].entry.provider # o[j].entry.provider}
           : n \in 1..MaxSources}

EntriesOf(o, ok) ==
    LET picked == SelectSeq(o, LAMBDA x : x.ok = ok)
    IN  [i \in 1..Len(picked) |-> picked[i].entry]

\* process_video_file has left the loop with these two lists.
ReturnInputInit ==
    /\ pc_process = "return"
    /\ library_result = [success |-> FALSE, animes |-> <<>>]
    /\ search_result = NoAnime
    /\ sources_result = [success |-> FALSE, sources |-> <<>>]
    /\ episodes_results = <<>>
    /\ all_episodes = <<>>
    /\ danmu_results = <<>>
    /\ \E o \in LoopOutcomes :
           /\ downloaded_files = EntriesOf(o, TRUE)
           /\ failed_sources = EntriesOf(o, FALSE)
    /\ steps = <<>>
    /\ written_files = {}
    /\ result = NoResult
    /\ match_result = NoEpisode

\* process_video_file is not running.
OrchInit ==
    /\ pc_process = "done"
    /\ library_result = [success |-> FALSE, animes |-> <<>>]
    /\ search_result = NoAnime
    /\ sources_result = [success |-> FALSE, sources |-> <<>>]
    /\ episodes_results = <<>>
    /\ all_episodes = <<>>
    /\ danmu_results = <<>>
    /\ downloaded_files = <<>>
    /\ failed_sources = <<>>
    /\ steps = <<>>
    /\ written_files = {}
    /\ result = NoResult
    /\ match_result = NoEpisode

\* process_video_file is called with a file name.
OrchInputInit ==
    /\ pc_process = "parse"
    /\ library_result = [success |-> FALSE, animes |-> <<>>]
    /\ search_result = NoAnime
    /\ sources_result = [success |-> FALSE, sources |-> <<>>]
    /\ episodes_results = <<>>
    /\ all_episodes = <<>>
    /\ danmu_results = <<>>
    /\ downloaded_files = <<>>
    /\ failed_sources = <<>>
    /\ steps = <<>>
    /\ written_files = {}
    /\ result = NoResult
    /\ match_result = NoEpisode
    /\ file_name \in OrchFiles
    /\ video_info = NotParsed
    /\ parsed = FALSE

(***************************************************************************)
(* get_concurrent_processor (utils/concurrent_processor.py, lines 399-431) *)
(* called from several threads: the global handle, the processors made so  *)
(* far, and where each caller is.  Processors are numbered as they are     *)
(* made; 0 stands for None.                                                *)
(***************************************************************************)
MaxSubmissions == 2
MaxConfigChanges == 1

Threads == {"t1", "t2"}
WorkerCounts == {4, 8}

\* line 409: config.get('max_concurrent_workers', 4)
DefaultWorkers == 4

\* ConcurrentFileProcessor(max_workers): the executor accepts work, nothing
\* is submitted; start_retry_processor sets retry_thread_running.
NewProcessor(n) ==
    [max_workers |-> n, executor_shutdown |-> FALSE, retry_thread_running |-> TRUE,
     submitted |-> 0, finished |-> 0, discarded |-> FALSE]

\* lines 408-409: the caller reads the configured worker count.
ReadWorkers(t) ==
    /\ resize_pc[t] = "idle"
    /\ Len(submissions) < MaxSubmissions
    /\ local_max_workers' = [local_max_workers EXCEPT ![t] = max_concurrent_workers]
    /\ resize_pc' = [resize_pc EXCEPT ![t] = "test"]
    /\ UNCHANGED <<concurrent_processor, processors, max_concurrent_workers,
                   old_processor, handle, submissions, config_changes>>

\* line 412, line 419: the global processor is None, or its worker count
\* differs from the configured one, or neither.
TestWorkers(t) ==
    /\ resize_pc[t] = "test"
    /\ resize_pc' = [resize_pc EXCEPT ![t] =
           IF concurrent_processor = 0 THEN "create"
           ELSE IF processors[concurrent_processor].max_workers # local_max_workers[t]
           THEN "keep old" ELSE "return"]
    /\ UNCHANGED <<concurrent_processor, processors, max_concurrent_workers,
                   local_max_workers, old_processor, handle, submissions,
                   config_changes>>

\* lines 413-414: the first processor is made and its retry thread started.
CreateFirst(t) ==
    /\ resize_pc[t] = "create"
    /\ processors' = Append(processors, NewProcessor(local_max_workers[t]))
    /\ concurrent_processor' = Len(processors) + 1
    /\ resize_pc' = [resize_pc EXCEPT ![t] = "return"]
    /\ UNCHANGED <<max_concurrent_workers, local_max_workers, old_processor, handle,
                   submissions, config_changes>>

\* line 423: old_processor = _concurrent_processor
KeepOld(t) ==
    /\ resize_pc[t] = "keep old"
    /\ old_processor' = [old_processor EXCEPT ![t] = concurrent_processor]
    /\ resize_pc' = [resize_pc EXCEPT ![t] = "replace"]
    /\ UNCHANGED <<concurrent_processor, processors, max_concurrent_workers,
                   local_max_workers, handle, submissions, config_changes>>

\* lines 425-426: the new processor is made and becomes the global one.
ReplaceProcessor(t) ==
    /\ resize_pc[t] = "replace"
    /\ processors' = Append(processors, NewProcessor(local_max_workers[t]))
    /\ concurrent_processor' = Len(processors) + 1
    /\ resize_pc' = [resize_pc EXCEPT ![t] = "shutdown"]
    /\ UNCHANGED <<max_concurrent_workers, local_max_workers, old_processor, handle,
                   submissions, config_changes>>

\* line 428, shutdown(): the retry thread is told to stop and the executor
\* takes no more work.
BeginShutdown(t) ==
    /\ resize_pc[t] = "shutdown"
    /\ processors' = [processors EXCEPT
           ![old_processor[t]].retry_thread_running = FALSE,
           ![old_processor[t]].executor_shutdown = TRUE]
    /\ resize_pc' = [resize_pc EXCEPT ![t] = "drain"]
    /\ UNCHANGED <<concurrent_processor, max_concurrent_workers, local_max_workers,
                   old_processor, handle, submissions, config_changes>>

\* line 61, executor.shutdown(wait=True): returns once every run submitted
\* to the old executor has finished; the old processor is then dropped.
EndShutdown(t) ==
    /\ resize_pc[t] = "drain"
    /\ processors[old_processor[t]].finished = processors[old_processor[t]].submitted
    /\ processors' = [processors EXCEPT ![old_processor[t]].discarded = TRUE]
    /\ resize_pc' = [resize_pc EXCEPT ![t] = "return"]
    /\ UNCHANGED <<concurrent_processor, max_concurrent_workers, local_max_workers,
                   old_processor, handle, submissions, config_changes>>

\* line 431: return _concurrent_processor
ReturnProcessor(t) ==
    /\ resize_pc[t] = "return"
    /\ handle' = [handle EXCEPT ![t] = concurrent_processor]
    /\ resize_pc' = [resize_pc EXCEPT ![t] = "submit"]
    /\ UNCHANGED <<concurrent_processor, processors, max_concurrent_workers,
                   local_max_workers, old_processor, submissions, config_changes>>

\* process_file_concurrent on the processor returned, lines 259-275: a shut
\* executor refuses the file, any other takes the run.
SubmitFile(t) ==
    /\ resize_pc[t] = "submit"
    /\ submissions' = Append(submissions,
           [thread |-> t, processor |-> handle[t],
            max_workers |-> processors[handle[t]].max_workers,
            configured |-> max_concurrent_workers,
            accepted |-> ~processors[handle[t]].executor_shutdown])
    /\ processors' = IF processors[handle[t]].executor_shutdown THEN processors
                     ELSE [processors EXCEPT ![handle[t]].submitted = @ + 1]
    /\ resize_pc' = [resize_pc EXCEPT ![t] = "idle"]
    /\ UNCHANGED <<concurrent_processor, max_concurrent_workers, local_max_workers,
                   old_processor, handle, config_changes>>

\* A run of the executor of processor p finishes.
FinishRun(p) ==
    /\ processors[p].finished < processors[p].submitted
    /\ processors' = [processors EXCEPT ![p].finished = @ + 1]
    /\ UNCHANGED <<concurrent_processor, max_concurrent_workers, local_max_workers,
                   old_processor, handle, submissions, resize_pc, config_changes>>

\* The configured worker count is changed.
ChangeWorkers(n) ==
    /\ config_changes < MaxConfigChanges
    /\ n # max_concurrent_workers
    /\ max_concurrent_workers' = n
    /\ config_changes' = config_changes + 1
    /\ UNCHANGED <<concurrent_processor, processors, local_max_workers, old_processor,
                   handle, submissions, resize_pc>>

\* line 400: _concurrent_processor = None; no caller is in the function.
ResizeInit ==
    /\ concurrent_processor = 0
    /\ processors = <<>>
    /\ max_concurrent_workers = DefaultWorkers
    /\ local_max_workers = [t \in Threads |-> DefaultWorkers]
    /\ old_processor = [t \in Threads |-> 0]
    /\ handle = [t \in Threads |-> 0]
    /\ submissions = <<>>
    /\ resize_pc = [t \in Threads |-> "idle"]
    /\ config_changes = 0

(***************************************************************************)
(* The retry loop step by step, and ConcurrentFileProcessor.shutdown       *)
(* (utils/concurrent_processor.py, lines 49-61 and 93-167).  Two callers   *)
(* hand in one path each.                                                  *)
(***************************************************************************)
CallerPath(c) == IF c = "t1" THEN "a.mp4" ELSE "b.mp4"

\* Mutant: the executor takes work after its shutdown has begun.
SubmitAcceptedAlways(shut) == TRUE

\* ThreadPoolExecutor.submit raises RuntimeError once shutdown has begun.
SubmitAccepted(shut) == ~shut

\* process_file_concurrent, lines 259-263 and 291-297: the executor is shut
\* down, the call returns False and the path is not in processing_files.
PFC_Refused(c) ==
    /\ callers[c].pc = "checked"
    /\ executor_shutdown
    /\ callers' = [callers EXCEPT ![c].pc = "refused"]
    /\ UNCHANGED <<processing_files, retry_queue, pool, batch, retry_thread, now,
                   config, processed_files>>
    /\ UNCHANGED poolHist
    /\ UNCHANGED teardownVars

\* A loop that goes on whatever the flag says (while True).
LoopTestIgnoresFlag ==
    /\ retry_thread = "test"
    /\ retry_thread' = "scan"
    /\ UNCHANGED <<processing_files, retry_queue, pool, callers, batch, now, config,
                   processed_files>>
    /\ UNCHANGED poolHist
    /\ UNCHANGED teardownVars

\* line 95: while self.retry_thread_running
LoopTest ==
    /\ retry_thread = "test"
    /\ retry_thread' = IF retry_thread_running THEN "scan" ELSE "exited"
    /\ UNCHANGED <<processing_files, retry_queue, pool, callers, batch, now, config,
                   processed_files>>
    /\ UNCHANGED poolHist
    /\ UNCHANGED teardownVars

\* lines 98-125: current_time is read, the queue is drained, the tasks that
\* are not due are put back; without a due task the loop sleeps and tests.
LoopScan ==
    /\ retry_thread = "scan"
    /\ retry_queue' = WaitingTasks(retry_queue, now)
    /\ ready_tasks' = ReadyTasks(retry_queue, now)
    /\ retry_thread' = IF ReadyTasks(retry_queue, now) = <<>> THEN "test" ELSE "check"
    /\ UNCHANGED <<processing_files, pool, callers, batch, now, config,
                   processed_files>>
    /\ UNCHANGED poolHist
    /\ UNCHANGED <<retry_thread_running, executor_shutdown, shutdown_pc,
                   join_timed_out, warnings, taken_before>>

\* lines 139-143: if self.executor._shutdown, the tasks are given up.
LoopCheck ==
    /\ retry_thread = "check"
    /\ IF executor_shutdown
       THEN /\ ready_tasks' = <<>>
            /\ retry_thread' = "test"
            /\ warnings' = warnings \cup {"executor shut down"}
       ELSE /\ retry_thread' = "submit"
            /\ UNCHANGED <<ready_tasks, warnings>>
    /\ UNCHANGED <<processing_files, retry_queue, pool, callers, batch, now, config,
                   processed_files>>
    /\ UNCHANGED poolHist
    /\ UNCHANGED <<retry_thread_running, executor_shutdown, shutdown_pc,
                   join_timed_out, taken_before>>

\* lines 147-154: one task is submitted, or submit raises and is logged.
LoopSubmit ==
    /\ retry_thread = "submit"
    /\ IF SubmitAccepted(executor_shutdown)
       THEN /\ pool' = SubmitRetries(pool, <<Head(ready_tasks)>>)
            /\ UNCHANGED warnings
       ELSE /\ warnings' = warnings \cup {"submit refused"}
            /\ UNCHANGED pool
    /\ ready_tasks' = Tail(ready_tasks)
    /\ retry_thread' = IF Tail(ready_tasks) = <<>> THEN "wait" ELSE "submit"
    /\ UNCHANGED <<processing_files, retry_queue, callers, batch, now, config,
                   processed_files>>
    /\ UNCHANGED poolHist
    /\ UNCHANGED <<retry_thread_running, executor_shutdown, shutdown_pc,
                   join_timed_out, taken_before>>

\* lines 157-167: as_completed yields a finished retry of the pass.
LoopHandle(r) ==
    /\ retry_thread = "wait"
    /\ r \in RunsOf(pool)
    /\ r.kind = "retry" /\ r.st = "done"
    /\ pool' = Remove(pool, r)
    /\ IF RetryRequeues(r.success, r.attempt, r.max_retries)
       THEN ScheduleRetryEffect(r.filepath, RequeueAttempt(r.attempt), r.max_retries)
       ELSE NoScheduleRetry
    /\ requeues' = IF Len(retry_queue') > Len(retry_queue)
                   THEN requeues \cup
                        {[filepath |-> retry_queue'[Len(retry_queue')].filepath,
                          from |-> r.attempt,
                          to |-> retry_queue'[Len(retry_queue')].attempt,
                          orch |-> r.orch]}
                   ELSE requeues
    /\ UNCHANGED <<processing_files, callers, batch, retry_thread, now, config,
                   processed_files>>
    /\ UNCHANGED <<invoked, first_submits, orch_ok, completed>>
    /\ UNCHANGED teardownVars

\* as_completed is exhausted: every retry of the pass has been handled, the
\* loop sleeps (line 125) and tests its flag again.
LoopSleep ==
    /\ retry_thread = "wait"
    /\ \A q \in RunsOf(pool) : q.kind # "retry"
    /\ retry_thread' = "test"
    /\ UNCHANGED <<processing_files, retry_queue, pool, callers, batch, now, config,
                   processed_files>>
    /\ UNCHANGED poolHist
    /\ UNCHANGED teardownVars

\* What names a RetryTask in queued_ever.
TaskKey(t) == [filepath |-> t.filepath, attempt |-> t.attempt,
               max_retries |-> t.max_retries]

\* shutdown -> stop_retry_processor, line 51: the flag is cleared.
StopRetryProcessor ==
    /\ shutdown_pc = "idle"
    /\ retry_thread_running' = FALSE
    /\ shutdown_pc' = "joining"
    /\ taken_before' = queued_ever \ {TaskKey(t) : t \in Range(retry_queue)}
    /\ UNCHANGED <<executor_shutdown, ready_tasks, join_timed_out, warnings>>
    /\ UNCHANGED poolVars
    /\ UNCHANGED poolHist

\* lines 52-53 and 61: join returns, because the loop has exited or on its
\* timeout wherever the loop is, and executor.shutdown sets _shutdown.
JoinReturns ==
    /\ shutdown_pc = "joining"
    /\ join_timed_out' = (retry_thread # "exited")
    /\ executor_shutdown' = TRUE
    /\ shutdown_pc' = "draining"
    /\ UNCHANGED <<retry_thread_running, ready_tasks, warnings, taken_before>>
    /\ UNCHANGED poolVars
    /\ UNCHANGED poolHist

\* line 61: executor.shutdown(wait=True) returns once the workers have run
\* every submitted run (done-callbacks included) and have been joined.
ExecutorShutdownReturns ==
    /\ shutdown_pc = "draining"
    /\ \A r \in RunsOf(pool) :
           /\ r.st \notin {"queued", "running"}
           /\ ~(r.kind = "cb" /\ r.st = "finally")
    /\ shutdown_pc' = "returned"
    /\ UNCHANGED <<retry_thread_running, executor_shutdown, ready_tasks,
                   join_timed_out, warnings, taken_before>>
    /\ UNCHANGED poolVars
    /\ UNCHANGED poolHist

\* The processor after start_retry_processor, before any shutdown.
TeardownInit ==
    /\ retry_thread_running = TRUE
    /\ executor_shutdown = FALSE
    /\ ready_tasks = <<>>
    /\ shutdown_pc = "idle"
    /\ join_timed_out = FALSE
    /\ warnings = {}
    /\ taken_before = {}

(***************************************************************************)
(* process_files_batch on a processor that is being shut down              *)
(* (utils/concurrent_processor.py, lines 359-366).                         *)
(***************************************************************************)
InflightBatches == {<<"a.mp4">>, <<"a.mp4", "b.mp4">>}

\* lines 363-365 after executor.shutdown: the path is added under the lock,
\* submit raises RuntimeError, and the exception leaves process_files_batch
\* (the loop has no try around it).
BatchSubmitRaises ==
    /\ batch.pc = "add"
    /\ ~SubmitAccepted(executor_shutdown)
    /\ processing_files' = processing_files \cup {batch.files[batch.i]}
    /\ batch' = [batch EXCEPT !.pc = "raised"]
    /\ UNCHANGED <<retry_queue, pool, callers, retry_thread, now, config,
                   processed_files>>
    /\ UNCHANGED poolHist
    /\ UNCHANGED teardownVars

(***************************************************************************)
(* get_config / update_config (utils/watcher.py, lines 419-443).           *)
(***************************************************************************)
RetryDelays == {DefaultRetryDelay, DefaultRetryDelay + 1}

\* The dicts handed to update_config.
ConfigUpdates ==
    {[k \in {"retry_delay"} |-> d] : d \in RetryDelays}
        \cup {[k \in {"max_retries"} |-> n] : n \in 1..MaxAttempts}

\* dict.update
DictUpdate(d, new) ==
    [k \in DOMAIN d \cup DOMAIN new |-> IF k \in DOMAIN new THEN new[k] ELSE d[k]]

\* update_config(new_config), line 430: _config.update(new_config) changes
\* the one dict that every later get_config() copies.
UpdateConfig(new) ==
    /\ config' = DictUpdate(config, new)
    /\ config' # config
    /\ UNCHANGED <<processing_files, retry_queue, pool, callers, batch, retry_thread,
                   now, processed_files>>
    /\ UNCHANGED poolHist
    /\ UNCHANGED submitHist

\* process_file_concurrent, lines 270-272: the configuration in force when
\* the path is submitted.
NoteSubmittedConfig(c) ==
    /\ submitted_config' = [submitted_config EXCEPT ![callers[c].path] = config]
    /\ UNCHANGED first_outcome

(***************************************************************************)
(* The orchestrator call of a first attempt, by what it does               *)
(* (_process_video_sync, lines 73-91).                                     *)
(***************************************************************************)
\* The result dict says the file name was not parsed, the catalog has no
\* match, a request failed; or the call raises.
FailureKinds == {"parse failure", "not found", "transport failure", "exception"}
OrchOutcomes == {"success"} \cup FailureKinds

\* Mutant: a result that reports no match counts as a success.
ProcessVideoSyncNotFoundOk(outcome) ==
    [success |-> outcome \in {"success", "not found"}, message |-> outcome]

\* _process_video_sync: the dict the orchestrator returned, or, when the
\* call raised, the failure dict of the except clause (lines 83-91).
ProcessVideoSync(outcome) ==
    [success |-> outcome = "success", message |-> outcome]

\* The worker of a first attempt returns for this outcome.
NoteOutcome(r, outcome) ==
    /\ first_outcome' = [first_outcome EXCEPT ![r.kind] = outcome]
    /\ UNCHANGED submitted_config

SubmitHistInit ==
    /\ submitted_config = [p \in Paths |-> <<>>]
    /\ first_outcome = [k \in {"cb", "batch"} |-> "none"]

(***************************************************************************)
(* The two layouts of JsonToXmlConverter (danmu/json_to_xml.py, lines      *)
(* 56-124), applied to one list of normalized comments.                    *)
(***************************************************************************)
\* ElementTree's serialisation of element text: & < > are escaped.
EtEscapeCdataChar(c) ==
    CASE c = "&" -> <<"&", "a", "m", "p", ";">>
      [] c = "<" -> <<"&", "l", "t", ";">>
      [] c = ">" -> <<"&", "g", "t", ";">>
      [] OTHER -> <<c>>

\* ElementTree's serialisation of an attribute value: & < > " are escaped.
EtEscapeAttribChar(c) ==
    CASE c = "&" -> <<"&", "a", "m", "p", ";">>
      [] c = "<" -> <<"&", "l", "t", ";">>
      [] c = ">" -> <<"&", "g", "t", ";">>
      [] c = "\"" -> <<"&", "q", "u", "o", "t", ";">>
      [] OTHER -> <<c>>

RECURSIVE EtEscape(_, _)
EtEscape(text, attrib) ==
    IF text = <<>> THEN <<>>
    ELSE (IF attrib THEN EtEscapeAttribChar(Head(text)) ELSE EtEscapeCdataChar(Head(text)))
             \o EtEscape(Tail(text), attrib)

DefaultProvider == <<"m", "i", "s", "a", "k", "a">>
DefaultChatServer ==
    <<"d", "a", "n", "m", "a", "k", "u", ".", "m", "i", "s", "a", "k", "a", ".", "o", "r", "g">>

\* generate_xml_from_comments: the children of the root, one record per
\* element, as ET.tostring writes them.
TreeHeader(comments, episode_id, provider_name, chat_server) ==
    <<Element("chatserver", <<>>, chat_server),
      Element("chatid", <<>>, IntToStr(episode_id)),
      Element("mission", <<>>, <<"0">>),
      Element("maxlimit", <<>>, <<"2", "0", "0", "0">>),
      Element("source", <<>>, <<"k", "-", "v">>),
      Element("sourceprovider", <<>>, provider_name),
      Element("datasize", <<>>, IntToStr(Len(comments)))>>

GenerateXmlFromComments(comments, episode_id, provider_name, chat_server) ==
    TreeHeader(comments, episode_id, provider_name, chat_server) \o
    [i \in 1..Len(comments) |->
        Element("d", EtEscape(comments[i].p, TRUE), EtEscape(comments[i].m, FALSE))]

\* The normalized comments given to both layouts: 'p' strings that need the
\* repair or not, texts with the characters that are escaped or not.
LayoutPs ==
    {<<"1", ",", "1", ",", "9">>,
     <<"1", ",", "1", ",", "2", "5", ",", "9">>,
     <<"1", ",", "1", ",", ",", "9">>}
LayoutTexts == {<<"a">>, <<"a", "<", "&">>, <<"a", "\"">>, <<"'">>}
LayoutRecords == {Record(p, m) : p \in LayoutPs, m \in LayoutTexts}
LayoutInputs == UNION {[1..n -> LayoutRecords] : n \in 0..MaxComments}

\* generate_dandan_xml is applied to normalized.
ApplyDandan ==
    /\ "records" \in xml_done /\ "dandan" \notin xml_done
    /\ xml_result' = [ok |-> TRUE, raised |-> FALSE, written |-> FALSE,
                      doc |-> GenerateDandanXml(normalized)]
    /\ xml_done' = xml_done \cup {"dandan"}
    /\ UNCHANGED <<p_attr, p_out, comments_in, normalized, tree_xml>>

\* generate_xml_from_comments is applied to normalized.
ApplyTree(provider_name) ==
    /\ "records" \in xml_done /\ "tree" \notin xml_done
    /\ tree_xml' = GenerateXmlFromComments(normalized, 0, provider_name,
                                           DefaultChatServer)
    /\ xml_done' = xml_done \cup {"tree"}
    /\ UNCHANGED <<p_attr, p_out, comments_in, normalized, xml_result>>

\* One list of normalized comments is given to the two layouts.
LayoutInputInit ==
    /\ p_attr = <<>>
    /\ p_out = <<>>
    /\ comments_in = <<>>
    /\ normalized \in LayoutInputs
    /\ xml_result = ConvertJsonToXml(<<>>, {})
    /\ tree_xml = NoDocument
    /\ xml_done = {"records"}

(***************************************************************************)
(* _search_anime (danmu/danmu_downloader.py, lines 214-268) on one series  *)
(* name, one season hint and one answer of get_library_list.               *)
(***************************************************************************)
MaxEntries == 2

SearchNames == {<<"n", "a", "m", "e">>, <<"N", "a", "m", "e">>, <<"o", "n">>}
SeasonHints == {NoSeason, Season(1), Season(2), Season(3)}
EntryTitles ==
    {<<"N", "a", "m", "e">>, <<"N", "A", "M", "E", " ", "2">>, <<"N", "a">>,
     <<"Z", "e", "d">>}
EntrySeasons == {1, 2}

\* The libraries: up to MaxEntries entries, numbered in list order.
SearchLibraries ==
    UNION {{[i \in 1..n |-> Anime(i, e[i][1], e[i][2])] :
               e \in [1..n -> EntryTitles \X EntrySeasons]} : n \in 0..MaxEntries}
SearchAnswers ==
    {[success |-> FALSE, animes |-> <<>>]}
        \cup {[success |-> TRUE, animes |-> a] : a \in SearchLibraries}

\* process_video_file has parsed a series name and a season and is about to
\* call _search_anime.
SearchInputInit ==
    /\ pc_process = "search"
    /\ library_result = [success |-> FALSE, animes |-> <<>>]
    /\ search_result = NoAnime
    /\ sources_result = [success |-> FALSE, sources |-> <<>>]
    /\ episodes_results = <<>>
    /\ all_episodes = <<>>
    /\ danmu_results = <<>>
    /\ downloaded_files = <<>>
    /\ failed_sources = <<>>
    /\ steps = <<>>
    /\ written_files = {}
    /\ result = NoResult
    /\ match_result = NoEpisode
    /\ file_name = <<>>
    /\ \E name \in SearchNames, hint \in SeasonHints :
           video_info = [NotParsed EXCEPT !.ok = TRUE, !.series_name = name,
                                          !.season = hint, !.episode = 1,
                                          !.content_type = "tv_series"]
    /\ parsed = TRUE

(***************************************************************************)
(* _match_episode (danmu/danmu_downloader.py, lines 328-374) on one list   *)
(* of episodes and one target number.                                      *)
(***************************************************************************)
MaxEpisodes == 2

EpisodeTitles ==
    {<<"U7B2C", "1", "U96C6">>, <<"e", "p", "0", "2">>, <<"E", "P", "1", "0">>,
     <<"O", "V", "A">>, <<"3">>}
TargetNumbers == 1..(MaxEpisodes + 1)

\* The lists: up to MaxEpisodes episodes, numbered in list order.
MatchLists ==
    UNION {{[i \in 1..n |-> Episode(i, t[i])] : t \in [1..n -> EpisodeTitles]}
           : n \in 0..MaxEpisodes}

\* process_video_file is about to run the loop for one source with these
\* episodes, for a video of this episode number.
MatchInputInit ==
    /\ pc_process = "loop"
    /\ library_result = [success |-> FALSE, animes |-> <<>>]
    /\ search_result = NoAnime
    /\ sources_result = [success |-> FALSE, sources |-> <<>>]
    /\ episodes_results = <<>>
    /\ \E episodes \in MatchLists :
           all_episodes = <<[provider_name |-> <<"b", "i", "l", "i", "b", "i", "l", "i">>,
                             episodes |-> episodes]>>
    /\ danmu_results = <<>>
    /\ downloaded_files = <<>>
    /\ failed_sources = <<>>
    /\ steps = <<>>
    /\ written_files = {}
    /\ result = NoResult
    /\ match_result = NoEpisode
    /\ file_name = <<>>
    /\ \E n \in TargetNumbers :
           video_info = [NotParsed EXCEPT !.ok = TRUE, !.series_name = Title,
                                          !.season = Season(1), !.episode = n,
                                          !.content_type = "tv_series"]
    /\ parsed = TRUE

(***************************************************************************)
(* stop_watcher (utils/watcher.py, lines 364-388) while the processor      *)
(* works.                                                                  *)
(***************************************************************************)
\* stop_watcher that also empties the executor and the retry queue.
StopWatcherCancels ==
    /\ running
    /\ running' = FALSE
    /\ event_queue' = <<>>
    /\ handler_processing' = {}
    /\ pool' = EmptyBag
    /\ retry_queue' = <<>>
    /\ retry_thread' = "scan"
    /\ UNCHANGED <<recent_events, handler, wclock, evals, attempt_loop>>
    /\ UNCHANGED <<processing_files, callers, batch, now, config, processed_files>>
    /\ UNCHANGED poolHist

\* stop_watcher: the flag is cleared, the observer is stopped and joined,
\* the handler's set is emptied.  It names no object of the processor.
StopWatcher ==
    /\ running
    /\ running' = FALSE
    /\ event_queue' = <<>>
    /\ handler_processing' = {}
    /\ UNCHANGED <<recent_events, handler, wclock, evals, attempt_loop>>
    /\ UNCHANGED <<poolVars, poolHist>>

(***************************************************************************)
(* Spec: the processor alone; the handler does not move.                   *)
(***************************************************************************)
Init ==
    /\ PoolInit /\ WatcherInit /\ ClientInit /\ XmlInit /\ ParserInit /\ OrchInit
    /\ ResizeInit /\ TeardownInit /\ SubmitHistInit

Next ==
    \/ \E c \in Callers, p \in SharedPaths : PFC_Check(c, p) /\ UNCHANGED exceptPool
    \/ \E c \in Callers : PFC_Submit(c) /\ UNCHANGED exceptPool
    \/ \E r \in RunsOf(pool) : StartRun(r) /\ UNCHANGED exceptPool
    \/ \E r \in RunsOf(pool), ok \in OrchResults :
           FinishCallbackRun(r, ok) /\ UNCHANGED exceptPool
    \/ \E r \in RunsOf(pool) : DiscardCallbackRun(r) /\ UNCHANGED exceptPool
    \/ \E r \in RunsOf(pool), ok \in OrchResults :
           FinishBatchRun(r, ok) /\ UNCHANGED exceptPool
    \/ \E r \in RunsOf(pool), ok \in OrchResults :
           FinishRetryRun(r, ok) /\ UNCHANGED exceptPool
    \/ \E fps \in BatchInputs : BatchStart(fps) /\ UNCHANGED exceptPool
    \/ BatchCheck /\ UNCHANGED exceptPool
    \/ BatchSubmit /\ UNCHANGED exceptPool
    \/ \E r \in RunsOf(pool) : BatchHandle(r) /\ UNCHANGED exceptPool
    \/ \E r \in RunsOf(pool) : BatchDiscard(r) /\ UNCHANGED exceptPool
    \/ BatchReturn /\ UNCHANGED exceptPool
    \/ RetryScan /\ UNCHANGED exceptPool
    \/ \E r \in RunsOf(pool) : RetryHandle(r) /\ UNCHANGED exceptPool
    \/ Tick /\ UNCHANGED exceptPool

Spec == Init /\ [][Next]_vars

(***************************************************************************)
(* SpecWatcher: the handler alone; the processor does not move.            *)
(***************************************************************************)
InitWatcher == Init /\ config.max_retries = MaxAttempts

NextWatcher ==
    \/ \E p \in SharedPaths, k \in Kinds : Notify(p, k) /\ UNCHANGED exceptWatcher
    \/ \E valid \in BOOLEAN : Dispatch(valid) /\ UNCHANGED exceptWatcher
    \/ Evaluate /\ UNCHANGED exceptWatcher
    \/ CallProcessFile /\ UNCHANGED exceptWatcher
    \/ ProcessFileReturns /\ UNCHANGED exceptWatcher
    \/ WTick /\ UNCHANGED exceptWatcher

SpecWatcher == InitWatcher /\ [][NextWatcher]_vars

(***************************************************************************)
(* SpecStream: a stream of events evaluated by _should_process_event.      *)
(***************************************************************************)
InitStream == Init /\ config.max_retries = MaxAttempts

NextStream ==
    \/ \E p \in SharedPaths, k \in Kinds : StreamEvent(p, k) /\ UNCHANGED exceptWatcher
    \/ StreamTick /\ UNCHANGED exceptWatcher

SpecStream == InitStream /\ [][NextStream]_vars

(***************************************************************************)
(* SubtitleHandler.process_file (utils/watcher.py 227-281): the attempt    *)
(* loop between the call of process_file and its return.                   *)
(***************************************************************************)
\* What one pass of the try block comes to: the result of
\* _process_video_async (a success, a success with skipped set, a failure
\* dictionary, None), or an exception raised inside the try block.
Outcomes == {"success", "skipped", "failure", "none", "raises"}

\* time.sleep takes seconds, the handler's clock counts tenths.
Tenths(seconds) == seconds * 10

RestOfPool == <<processing_files, retry_queue, pool, callers, batch, retry_thread,
                now, config>>

\* lines 230-231: max_retries and retry_delay are read once, at entry.
ReadConfig ==
    /\ handler.pc = "processing"
    /\ attempt_loop.call # Len(evals)
    /\ attempt_loop' = [pc |-> "for", call |-> Len(evals), attempt |-> 0,
                        max_retries |-> config.max_retries,
                        retry_delay |-> Tenths(config.retry_delay),
                        begun |-> 0, wake |-> 0, results |-> <<>>]
    /\ UNCHANGED <<recent_events, handler_processing, event_queue, handler, wclock,
                   evals, running>>
    /\ UNCHANGED <<poolVars, poolHist>>

\* line 232: for attempt in range(max_retries)
ForTest ==
    /\ attempt_loop.pc = "for"
    /\ attempt_loop' =
           IF attempt_loop.attempt < attempt_loop.max_retries
           THEN [attempt_loop EXCEPT !.pc = "try", !.begun = wclock]
           ELSE [attempt_loop EXCEPT !.pc = "done"]
    /\ UNCHANGED <<recent_events, handler_processing, event_queue, handler, wclock,
                   evals, running>>
    /\ UNCHANGED <<poolVars, poolHist>>

\* One record per attempt: when it began and ended, what it came to, whether
\* process_video_file was entered, and the sleep that follows it.
Attempt(outcome, entered, delay) ==
    [begun |-> attempt_loop.begun, at |-> wclock, outcome |-> outcome,
     invoked |-> entered, delay |-> delay]

\* Mutant: the failure branches wait like the exception branch.
AfterFailureSleeps(outcome) ==
    IF attempt_loop.attempt < attempt_loop.max_retries - 1
    THEN [attempt_loop EXCEPT
             !.pc = "sleeping", !.wake = wclock + attempt_loop.retry_delay,
             !.results = Append(@, Attempt(outcome, TRUE, attempt_loop.retry_delay))]
    ELSE [attempt_loop EXCEPT
             !.pc = "for", !.attempt = @ + 1,
             !.results = Append(@, Attempt(outcome, TRUE, 0))]

\* lines 262-269: a failure dictionary or None: log, continue.
AfterFailure(outcome) ==
    [attempt_loop EXCEPT !.pc = "for", !.attempt = @ + 1,
                         !.results = Append(@, Attempt(outcome, TRUE, 0))]

\* lines 274-281: log; sleep retry_delay unless this was the last attempt.
AfterException(entered) ==
    IF attempt_loop.attempt < attempt_loop.max_retries - 1
    THEN [attempt_loop EXCEPT
             !.pc = "sleeping", !.wake = wclock + attempt_loop.retry_delay,
             !.results = Append(@, Attempt("raises", entered, attempt_loop.retry_delay))]
    ELSE [attempt_loop EXCEPT
             !.pc = "for", !.attempt = @ + 1,
             !.results = Append(@, Attempt("raises", entered, 0))]

\* lines 246-260, 272: _processed_files.add, log, break.
AfterSuccess(outcome) ==
    [attempt_loop EXCEPT !.pc = "done",
                         !.results = Append(@, Attempt(outcome, TRUE, 0))]

\* lines 233-281: one pass of the try block.  An exception may be raised
\* before process_video_file is entered (the import or the construction of
\* the downloader, lines 236-240) or by asyncio.run after it.
TryBlock(outcome, entered) ==
    /\ attempt_loop.pc = "try"
    /\ outcome # "raises" => entered
    /\ attempt_loop' =
           CASE outcome \in {"success", "skipped"} -> AfterSuccess(outcome)
             [] outcome \in {"failure", "none"} -> AfterFailure(outcome)
             [] outcome = "raises" -> AfterException(entered)
    /\ processed_files' =
           IF outcome \in {"success", "skipped"}
           THEN processed_files \cup {handler.path}
           ELSE processed_files
    /\ UNCHANGED <<recent_events, handler_processing, event_queue, handler, wclock,
                   evals, running>>
    /\ UNCHANGED <<RestOfPool, poolHist>>

\* line 281: time.sleep(retry_delay) has run out, the for statement goes on.
SleepEnds ==
    /\ attempt_loop.pc = "sleeping"
    /\ wclock >= attempt_loop.wake
    /\ attempt_loop' = [attempt_loop EXCEPT !.pc = "for", !.attempt = @ + 1]
    /\ UNCHANGED <<recent_events, handler_processing, event_queue, handler, wclock,
                   evals, running>>
    /\ UNCHANGED <<poolVars, poolHist>>

\* The loop is over: process_file returns to on_created / on_moved.
LoopReturns ==
    /\ attempt_loop.pc = "done"
    /\ attempt_loop.call = Len(evals)
    /\ ProcessFileReturns
    /\ UNCHANGED <<poolVars, poolHist>>

\* Time passes while process_video_file runs or the loop sleeps; the other
\* statements of the loop follow one another without a wait.  Explored: an
\* attempt that takes no time or one tenth of a second.
AttemptTick ==
    /\ wclock < MaxClock
    /\ handler.pc = "processing"
    /\ \/ attempt_loop.pc = "try" /\ wclock = attempt_loop.begun
       \/ attempt_loop.pc = "sleeping" /\ wclock < attempt_loop.wake
    /\ wclock' = wclock + 1
    /\ UNCHANGED <<recent_events, handler_processing, event_queue, handler, evals,
                   running, attempt_loop>>
    /\ UNCHANGED <<poolVars, poolHist>>

\* Time passes outside process_file.
HandlerTick == handler.pc # "processing" /\ WTick /\ UNCHANGED <<poolVars, poolHist>>

(***************************************************************************)
(* SpecAttempts: the handler with the attempt loop of process_file, for   *)
(* one notification.                                                       *)
(***************************************************************************)
exceptAttempts == <<clientVars, xmlVars, parserVars, orchVars, resizeVars,
                    teardownVars, submitHist>>

InitAttempts == Init

NextAttempts ==
    \/ \E p \in SharedPaths, k \in Kinds :
           /\ evals = <<>> /\ event_queue = <<>>
           /\ Notify(p, k) /\ UNCHANGED exceptWatcher
    \/ \E valid \in BOOLEAN :
           Dispatch(valid) /\ UNCHANGED exceptWatcher
    \/ Evaluate /\ UNCHANGED exceptWatcher
    \/ CallProcessFile /\ UNCHANGED exceptWatcher
    \/ ReadConfig /\ UNCHANGED exceptAttempts
    \/ ForTest /\ UNCHANGED exceptAttempts
    \/ \E outcome \in Outcomes, entered \in BOOLEAN :
           TryBlock(outcome, entered) /\ UNCHANGED exceptAttempts
    \/ SleepEnds /\ UNCHANGED exceptAttempts
    \/ LoopReturns /\ UNCHANGED exceptAttempts
    \/ AttemptTick /\ UNCHANGED exceptAttempts
    \/ HandlerTick /\ UNCHANGED exceptAttempts

SpecAttempts == InitAttempts /\ [][NextAttempts]_vars

(***************************************************************************)
(* SpecDedup: _should_process_event applied to one record of acceptances.  *)
(***************************************************************************)
InitDedup ==
    /\ PoolInit /\ config.max_retries = MaxAttempts
    /\ ClientInit /\ XmlInit /\ ParserInit /\ OrchInit /\ ResizeInit /\ TeardownInit /\ SubmitHistInit
    /\ DedupInputInit

NextDedup ==
    \E p \in SharedPaths, k \in Kinds :
        ApplyShouldProcessEvent(p, k) /\ UNCHANGED exceptWatcher

SpecDedup == InitDedup /\ [][NextDedup]_vars

(***************************************************************************)
(* SpecClient: the client alone.                                           *)
(***************************************************************************)
InitClient == Init /\ config.max_retries = MaxAttempts

NextClient ==
    \/ \E kw \in KeywordSets, resp \in Responses :
           GetLibraryList(kw, resp) /\ UNCHANGED exceptClient
    \/ \E id \in Ids, kw \in KeywordSets, resp \in Responses :
           GetAnimeSources(id, kw, resp) /\ UNCHANGED exceptClient
    \/ \E id \in Ids, kw \in KeywordSets, resp \in Responses :
           GetSourceEpisodes(id, kw, resp) /\ UNCHANGED exceptClient
    \/ \E id \in Ids, resp \in Responses :
           GetEpisodeDanmaku(id, resp) /\ UNCHANGED exceptClient
    \/ ClearCache /\ UNCHANGED exceptClient
    \/ \E u \in BaseUrls : SetBaseUrl(u) /\ UNCHANGED exceptClient
    \/ CTick /\ UNCHANGED exceptClient

SpecClient == InitClient /\ [][NextClient]_vars

(***************************************************************************)
(* SpecXml: the converter applied to one input.                            *)
(***************************************************************************)
InitXml ==
    /\ PoolInit /\ config.max_retries = MaxAttempts
    /\ WatcherInit /\ ClientInit /\ ParserInit /\ OrchInit /\ ResizeInit
    /\ TeardownInit /\ SubmitHistInit
    /\ XmlInputInit

NextXml ==
    \/ ApplyRepair /\ UNCHANGED exceptXml
    \/ ApplyNormalize /\ UNCHANGED exceptXml
    \/ \E kw \in KeywordChoices : ApplyConvert(kw) /\ UNCHANGED exceptXml

SpecXml == InitXml /\ [][NextXml]_vars

(***************************************************************************)
(* SpecLayouts: the two layouts applied to one list of normalized comments.*)
(***************************************************************************)
InitLayouts ==
    /\ PoolInit /\ config.max_retries = MaxAttempts
    /\ WatcherInit /\ ClientInit /\ ParserInit /\ OrchInit /\ ResizeInit
    /\ TeardownInit /\ SubmitHistInit
    /\ LayoutInputInit

NextLayouts ==
    \/ ApplyDandan /\ UNCHANGED exceptXml
    \/ \E provider_name \in Providers \cup {DefaultProvider} :
           ApplyTree(provider_name) /\ UNCHANGED exceptXml

SpecLayouts == InitLayouts /\ [][NextLayouts]_vars

(***************************************************************************)
(* SpecParser: the parser applied to one file name.                        *)
(***************************************************************************)
InitParser ==
    /\ PoolInit /\ config.max_retries = MaxAttempts
    /\ WatcherInit /\ ClientInit /\ XmlInit /\ OrchInit /\ ResizeInit
    /\ TeardownInit /\ SubmitHistInit
    /\ ParserInputInit

NextParser == ApplyParse /\ UNCHANGED exceptParser

SpecParser == InitParser /\ [][NextParser]_vars

(***************************************************************************)
(* SpecOrch: process_video_file on one file name.                          *)
(***************************************************************************)
InitOrch ==
    /\ PoolInit /\ config.max_retries = MaxAttempts
    /\ WatcherInit /\ ClientInit /\ XmlInit /\ ResizeInit /\ TeardownInit /\ SubmitHistInit
    /\ OrchInputInit

NextOrch ==
    \/ ParseFile /\ UNCHANGED exceptOrch
    \/ /\ pc_process = "search"
       /\ \E answer \in LibraryAnswers :
              SearchStep(answer) /\ UNCHANGED <<exceptOrch, parserVars>>
    \/ /\ pc_process = "episodes"
       /\ \E answer \in SourcesAnswers :
              \E answers \in [1..Len(answer.sources) -> EpisodesAnswers] :
                  EpisodesStep(answer, answers) /\ UNCHANGED <<exceptOrch, parserVars>>
    \/ /\ pc_process = "loop"
       /\ \E answer \in DanmakuAnswers :
              SourceStep(answer) /\ UNCHANGED <<exceptOrch, parserVars>>
    \/ ReturnStep /\ UNCHANGED <<exceptOrch, parserVars>>

SpecOrch == InitOrch /\ [][NextOrch]_vars

(***************************************************************************)
(* SpecRerun: process_video_file on a video processed before.              *)
(***************************************************************************)
InitRerun ==
    /\ PoolInit /\ config.max_retries = MaxAttempts
    /\ WatcherInit /\ ClientInit /\ XmlInit /\ ResizeInit
    /\ TeardownInit /\ SubmitHistInit
    /\ RerunInputInit

SpecRerun == InitRerun /\ [][NextOrch]_vars

(***************************************************************************)
(* SpecReturn: the result of process_video_file for the lists of the loop. *)
(***************************************************************************)
InitReturn ==
    /\ PoolInit /\ config.max_retries = MaxAttempts
    /\ WatcherInit /\ ClientInit /\ XmlInit /\ ParserInit /\ ResizeInit
    /\ TeardownInit /\ SubmitHistInit
    /\ ReturnInputInit

NextReturn == ApplyReturn /\ UNCHANGED <<exceptOrch, parserVars>>

SpecReturn == InitReturn /\ [][NextReturn]_vars

(***************************************************************************)
(* SpecSearch: _search_anime on one series name and one library.           *)
(***************************************************************************)
InitSearch ==
    /\ PoolInit /\ config.max_retries = MaxAttempts
    /\ WatcherInit /\ ClientInit /\ XmlInit /\ ResizeInit
    /\ TeardownInit /\ SubmitHistInit
    /\ SearchInputInit

NextSearch ==
    \E answer \in SearchAnswers :
        SearchStep(answer) /\ UNCHANGED <<exceptOrch, parserVars>>

SpecSearch == InitSearch /\ [][NextSearch]_vars

(***************************************************************************)
(* SpecMatch: the loop of process_video_file on one source.                *)
(***************************************************************************)
InitMatch ==
    /\ PoolInit /\ config.max_retries = MaxAttempts
    /\ WatcherInit /\ ClientInit /\ XmlInit /\ ResizeInit
    /\ TeardownInit /\ SubmitHistInit
    /\ MatchInputInit

NextMatch ==
    \/ \E answer \in DanmakuAnswers :
           SourceStep(answer) /\ UNCHANGED <<exceptOrch, parserVars>>
    \/ ReturnStep /\ UNCHANGED <<exceptOrch, parserVars>>

SpecMatch == InitMatch /\ [][NextMatch]_vars

(***************************************************************************)
(* SpecStop: two paths are submitted and retried, and stop_watcher is      *)
(* called at any moment.  Workers, the retry thread and the clock are      *)
(* scheduled fairly.                                                       *)
(***************************************************************************)
exceptStop == <<clientVars, xmlVars, parserVars, orchVars, resizeVars, teardownVars,
                submitHist>>

InitStop == Init /\ config.max_retries = MaxAttempts

WorkerStep ==
    \/ \E r \in RunsOf(pool) : StartRun(r)
    \/ \E r \in RunsOf(pool), ok \in OrchResults : FinishCallbackRun(r, ok)
    \/ \E r \in RunsOf(pool) : DiscardCallbackRun(r)
    \/ \E r \in RunsOf(pool), ok \in OrchResults : FinishRetryRun(r, ok)

RetryThreadStep ==
    \/ RetryScan
    \/ \E r \in RunsOf(pool) : RetryHandle(r)

NextStop ==
    \/ \E c \in Callers : PFC_Check(c, CallerPath(c)) /\ UNCHANGED exceptPool
    \/ \E c \in Callers : PFC_Submit(c) /\ UNCHANGED exceptPool
    \/ \E r \in RunsOf(pool) : StartRun(r) /\ UNCHANGED exceptPool
    \/ \E r \in RunsOf(pool), ok \in OrchResults :
           FinishCallbackRun(r, ok) /\ UNCHANGED exceptPool
    \/ \E r \in RunsOf(pool) : DiscardCallbackRun(r) /\ UNCHANGED exceptPool
    \/ \E r \in RunsOf(pool), ok \in OrchResults :
           FinishRetryRun(r, ok) /\ UNCHANGED exceptPool
    \/ RetryScan /\ UNCHANGED exceptPool
    \/ \E r \in RunsOf(pool) : RetryHandle(r) /\ UNCHANGED exceptPool
    \/ Tick /\ UNCHANGED exceptPool
    \/ StopWatcher /\ UNCHANGED exceptStop

SpecStop ==
    /\ InitStop /\ [][NextStop]_vars
    /\ WF_vars(WorkerStep /\ UNCHANGED exceptPool)
    /\ WF_vars(RetryThreadStep /\ UNCHANGED exceptPool)
    /\ WF_vars(Tick /\ UNCHANGED exceptPool)

(***************************************************************************)
(* SpecInflight: first attempts by process_file_concurrent and by          *)
(* process_files_batch while shutdown() may be called.                     *)
(***************************************************************************)
InitInflight == Init /\ config.max_retries = MaxAttempts

NextInflight ==
    \/ \E c \in Callers : PFC_Check(c, CallerPath(c)) /\ UNCHANGED exceptPool
    \/ \E c \in Callers :
           SubmitAccepted(executor_shutdown) /\ PFC_Submit(c) /\ UNCHANGED exceptPool
    \/ \E c \in Callers : PFC_Refused(c) /\ UNCHANGED exceptTeardown
    \/ \E fps \in InflightBatches : BatchStart(fps) /\ UNCHANGED exceptPool
    \/ BatchCheck /\ UNCHANGED exceptPool
    \/ SubmitAccepted(executor_shutdown) /\ BatchSubmit /\ UNCHANGED exceptPool
    \/ BatchSubmitRaises /\ UNCHANGED exceptTeardown
    \/ \E r \in RunsOf(pool) : BatchHandle(r) /\ UNCHANGED exceptPool
    \/ \E r \in RunsOf(pool) : BatchDiscard(r) /\ UNCHANGED exceptPool
    \/ BatchReturn /\ UNCHANGED exceptPool
    \/ \E r \in RunsOf(pool) : StartRun(r) /\ UNCHANGED exceptPool
    \/ \E r \in RunsOf(pool), ok \in OrchResults :
           FinishCallbackRun(r, ok) /\ UNCHANGED exceptPool
    \/ \E r \in RunsOf(pool) : DiscardCallbackRun(r) /\ UNCHANGED exceptPool
    \/ \E r \in RunsOf(pool), ok \in OrchResults :
           FinishBatchRun(r, ok) /\ UNCHANGED exceptPool
    \/ StopRetryProcessor /\ UNCHANGED exceptTeardown
    \/ JoinReturns /\ UNCHANGED exceptTeardown
    \/ ExecutorShutdownReturns /\ UNCHANGED exceptTeardown

SpecInflight == InitInflight /\ [][NextInflight]_vars

(***************************************************************************)
(* SpecResize: callers of get_concurrent_processor while the configured    *)
(* worker count changes.                                                   *)
(***************************************************************************)
NextResize ==
    \/ \E t \in Threads : ReadWorkers(t) /\ UNCHANGED exceptResize
    \/ \E t \in Threads : CreateFirst(t) /\ UNCHANGED exceptResize
    \/ \E t \in Threads : TestWorkers(t) /\ UNCHANGED exceptResize
    \/ \E t \in Threads : KeepOld(t) /\ UNCHANGED exceptResize
    \/ \E t \in Threads : ReplaceProcessor(t) /\ UNCHANGED exceptResize
    \/ \E t \in Threads : BeginShutdown(t) /\ UNCHANGED exceptResize
    \/ \E t \in Threads : EndShutdown(t) /\ UNCHANGED exceptResize
    \/ \E t \in Threads : ReturnProcessor(t) /\ UNCHANGED exceptResize
    \/ \E t \in Threads : SubmitFile(t) /\ UNCHANGED exceptResize
    \/ \E p \in 1..Len(processors) : FinishRun(p) /\ UNCHANGED exceptResize
    \/ \E n \in WorkerCounts : ChangeWorkers(n) /\ UNCHANGED exceptResize

SpecResize == Init /\ [][NextResize]_vars

(***************************************************************************)
(* SpecRetry: two paths, the retry loop step by step, and shutdown().      *)
(***************************************************************************)
InitRetry == Init /\ config.max_retries = MaxAttempts

NextRetry ==
    \/ \E c \in Callers : PFC_Check(c, CallerPath(c)) /\ UNCHANGED exceptPool
    \/ \E c \in Callers :
           ~executor_shutdown /\ PFC_Submit(c) /\ UNCHANGED exceptPool
    \/ \E c \in Callers : PFC_Refused(c) /\ UNCHANGED exceptTeardown
    \/ \E r \in RunsOf(pool) : StartRun(r) /\ UNCHANGED exceptPool
    \/ \E r \in RunsOf(pool), ok \in OrchResults :
           FinishCallbackRun(r, ok) /\ UNCHANGED exceptPool
    \/ \E r \in RunsOf(pool) : DiscardCallbackRun(r) /\ UNCHANGED exceptPool
    \/ \E r \in RunsOf(pool), ok \in OrchResults :
           FinishRetryRun(r, ok) /\ UNCHANGED exceptPool
    \/ LoopTest /\ UNCHANGED exceptTeardown
    \/ LoopScan /\ UNCHANGED exceptTeardown
    \/ LoopCheck /\ UNCHANGED exceptTeardown
    \/ LoopSubmit /\ UNCHANGED exceptTeardown
    \/ \E r \in RunsOf(pool) : LoopHandle(r) /\ UNCHANGED exceptTeardown
    \/ LoopSleep /\ UNCHANGED exceptTeardown
    \/ StopRetryProcessor /\ UNCHANGED exceptTeardown
    \/ JoinReturns /\ UNCHANGED exceptTeardown
    \/ ExecutorShutdownReturns /\ UNCHANGED exceptTeardown
    \/ Tick /\ UNCHANGED exceptPool

SpecRetry == InitRetry /\ [][NextRetry]_vars

(***************************************************************************)
(* SpecConfig: one path is submitted and retried while update_config is    *)
(* called.                                                                 *)
(***************************************************************************)
InitConfig == Init /\ config.max_retries = MaxAttempts

NextConfig ==
    \/ \E p \in SharedPaths : PFC_Check("t1", p) /\ UNCHANGED exceptPool
    \/ PFC_Submit("t1") /\ NoteSubmittedConfig("t1") /\ UNCHANGED exceptConfig
    \/ \E r \in RunsOf(pool) : StartRun(r) /\ UNCHANGED exceptPool
    \/ \E r \in RunsOf(pool), ok \in OrchResults :
           FinishCallbackRun(r, ok) /\ UNCHANGED exceptPool
    \/ \E r \in RunsOf(pool) : DiscardCallbackRun(r) /\ UNCHANGED exceptPool
    \/ \E r \in RunsOf(pool), ok \in OrchResults :
           FinishRetryRun(r, ok) /\ UNCHANGED exceptPool
    \/ RetryScan /\ UNCHANGED exceptPool
    \/ \E r \in RunsOf(pool) : RetryHandle(r) /\ UNCHANGED exceptPool
    \/ \E new \in ConfigUpdates : UpdateConfig(new) /\ UNCHANGED exceptConfig
    \/ Tick /\ UNCHANGED exceptPool

SpecConfig == InitConfig /\ [][NextConfig]_vars

(***************************************************************************)
(* SpecWorker: the first attempts of one path, by process_file_concurrent  *)
(* and by process_files_batch, for every outcome of the orchestrator call. *)
(***************************************************************************)
NextWorker ==
    \/ \E p \in SharedPaths : PFC_Check("t1", p) /\ UNCHANGED exceptPool
    \/ PFC_Submit("t1") /\ UNCHANGED exceptPool
    \/ \E r \in RunsOf(pool) : StartRun(r) /\ UNCHANGED exceptPool
    \/ \E r \in RunsOf(pool), outcome \in OrchOutcomes :
           /\ FinishCallbackRun(r, ProcessVideoSync(outcome).success)
           /\ NoteOutcome(r, outcome)
           /\ UNCHANGED exceptConfig
    \/ \E r \in RunsOf(pool) : DiscardCallbackRun(r) /\ UNCHANGED exceptPool
    \/ \E r \in RunsOf(pool), outcome \in OrchOutcomes :
           /\ FinishBatchRun(r, ProcessVideoSync(outcome).success)
           /\ NoteOutcome(r, outcome)
           /\ UNCHANGED exceptConfig
    \/ \E fps \in BatchInputs : BatchStart(fps) /\ UNCHANGED exceptPool
    \/ BatchCheck /\ UNCHANGED exceptPool
    \/ BatchSubmit /\ UNCHANGED exceptPool
    \/ \E r \in RunsOf(pool) : BatchHandle(r) /\ UNCHANGED exceptPool
    \/ \E r \in RunsOf(pool) : BatchDiscard(r) /\ UNCHANGED exceptPool
    \/ BatchReturn /\ UNCHANGED exceptPool

SpecWorker == Init /\ [][NextWorker]_vars

(***************************************************************************)
(* Observations used by the properties of the processor.                   *)
(***************************************************************************)
RunsFor(p) == {r \in RunsOf(pool) : r.filepath = p}

\* Runs of p that are queued in the executor or executing.
LiveRuns(p) ==
    LET live == {r \in RunsFor(p) : r.st \in {"queued", "running"}}
    IN  BagCardinality([r \in live |-> pool[r]])

TasksFor(p) == {i \in 1..Len(retry_queue) : retry_queue[i].filepath = p}

\* Nothing of p is left anywhere in the processor.
Settled(p) == RunsFor(p) = {} /\ TasksFor(p) = {}

\* p was submitted once and no orchestrator call for it has succeeded.
SubmittedOnceAlwaysFailing(p) == first_submits[p] = 1 /\ orch_ok[p] = 0

CalledWith(p) == {c \in Callers : callers[c].pc # "idle" /\ callers[c].path = p}
SubmittedBy(p) == {c \in CalledWith(p) : callers[c].pc = "returned"}

(***************************************************************************)
(* C1.  N threads calling process_file_concurrent with the same path while *)
(* no run of that path has completed: exactly one call submits a run, the  *)
(* other calls return without submitting, for every interleaving.          *)
(***************************************************************************)
C1_ExactlyOneSubmits ==
    \A p \in Paths :
        (completed[p] = 0 /\ batch.pc = "idle") =>
            /\ Cardinality(SubmittedBy(p)) <= 1
            /\ (/\ CalledWith(p) # {}
                /\ \A c \in CalledWith(p) : callers[c].pc \in {"returned", "skipped"})
               => Cardinality(SubmittedBy(p)) = 1

(***************************************************************************)
(* C2.  At no time are two runs of the same path queued or executing in    *)
(* the pool, across first attempts of process_file_concurrent and          *)
(* process_files_batch and retry executions.                               *)
(***************************************************************************)
C2_OneLiveRunPerPath == \A p \in Paths : LiveRuns(p) <= 1

(***************************************************************************)
(* C3.  A path submitted once with max_retries = M >= 1 whose orchestrator *)
(* call always fails is invoked at most M times, exactly M times once      *)
(* nothing of it is left in the processor, and after its M-th failure no   *)
(* RetryTask of it is in the retry queue.                                  *)
(***************************************************************************)
C3_RetryBound ==
    \A p \in Paths :
        SubmittedOnceAlwaysFailing(p) =>
            /\ invoked[p] <= config.max_retries
            /\ Settled(p) => invoked[p] = config.max_retries
            /\ completed[p] >= config.max_retries => TasksFor(p) = {}

C3_Witness ==
    \E p \in Paths :
        /\ SubmittedOnceAlwaysFailing(p)
        /\ Settled(p)
        /\ config.max_retries = 3
        /\ invoked[p] = 3
        /\ completed[p] = 3

(***************************************************************************)
(* C4.  When the last allowed attempt of a path fails, a terminal-failure  *)
(* log entry is emitted for the path, for every max_retries >= 1: a path   *)
(* submitted once whose every attempt failed has its terminal entry once   *)
(* nothing of it is left in the processor.                                 *)
(***************************************************************************)
C4_TerminalLogEmitted ==
    \A p \in Paths :
        (SubmittedOnceAlwaysFailing(p) /\ Settled(p)) => terminal_logged[p] = 1

(***************************************************************************)
(* C5.  A retry execution whose orchestrator result has success = true     *)
(* reports success to the scheduler, and no RetryTask is queued after it.  *)
(***************************************************************************)
C5_RetrySuccessEndsChain ==
    /\ \A r \in RunsOf(pool) :
           (r.kind = "retry" /\ r.st = "done" /\ r.orch) => r.success
    /\ \A q \in requeues : ~q.orch

(***************************************************************************)
(* C6.  Every RetryTask ever placed in the retry queue has                 *)
(* 2 <= attempt <= max_retries, and a requeue after a failed retry carries *)
(* the failed task's attempt plus one.                                     *)
(***************************************************************************)
C6_AttemptRange ==
    /\ \A t \in queued_ever : 2 <= t.attempt /\ t.attempt <= t.max_retries
    /\ \A i \in 1..Len(retry_queue) :
           [filepath |-> retry_queue[i].filepath, attempt |-> retry_queue[i].attempt,
            max_retries |-> retry_queue[i].max_retries] \in queued_ever
    /\ \A q \in requeues : q.to = q.from + 1

C6_Witness ==
    /\ \E q \in requeues : q.from = 2 /\ q.to = 3
    /\ \E i \in 1..Len(retry_queue) :
           retry_queue[i].attempt = 3 /\ retry_queue[i].max_retries = 3

(***************************************************************************)
(* The event handler                                                       *)
(***************************************************************************)
\* The notifications of path p whose handling ended in a process_file call.
CallsOf(p) == {i \in 1..Len(evals) : evals[i].path = p /\ evals[i].st = "called"}

\* The notification was judged by _should_process_event.
Judged(i) == evals[i].st \in {"accepted", "suppressed", "called"}

TTL(op) ==
    CASE op = "get_library_list" -> LIBRARY_CACHE_TTL
      [] op = "get_anime_sources" -> SOURCES_CACHE_TTL
      [] OTHER -> EPISODES_CACHE_TTL

\* Call j is the call after call i, of the same cached operation with the
\* same key.
Repeats(i, j) ==
    /\ {i, j} \subseteq 1..Len(call_log)
    /\ j = i + 1
    /\ call_log[i].op \in CachedOps
    /\ call_log[j].op = call_log[i].op
    /\ call_log[j].key = call_log[i].key

\* C8: when a cached operation succeeds and is called again with the same
\* key before its TTL has run out, the second call sends no request and its
\* result is marked as served from the cache; when it is called again after
\* the TTL, a request is sent.
C8_CachedWithinTTL ==
    \A i, j \in 1..Len(call_log) :
        (Repeats(i, j) /\ call_log[i].outcome = "success")
        => IF call_log[j].at - call_log[i].at < TTL(call_log[i].op)
           THEN ~call_log[j].requested /\ call_log[j].from_cache
           ELSE call_log[j].requested \/ call_log[j].outcome = "raised"

\* C9: a call of clear_cache completes as a flush, and the call of a cached
\* operation that follows it sends a request (or fails before one) and is
\* not served from the cache.
C9_FlushThenRefetch ==
    \A i \in 1..Len(call_log) :
        call_log[i].op = "clear_cache"
        => /\ call_log[i].outcome # "raised"
           /\ \A j \in 1..Len(call_log) :
                  (j = i + 1 /\ call_log[j].op \in CachedOps)
                  => /\ ~call_log[j].from_cache
                     /\ call_log[j].requested \/ call_log[j].outcome = "raised"

\* C10: a call of one of the four operations, made with the arguments of its
\* signature, never raises: a missing base URL, a non-2xx response and a
\* body that is not JSON end in a result with success = false.
C10_NeverRaises ==
    \A i \in 1..Len(call_log) :
        (call_log[i].op \in ClientOps /\ call_log[i].kw \subseteq Parameters(call_log[i].op))
        => /\ call_log[i].outcome # "raised"
           /\ call_log[i].cause \in {"no_base_url", "http_error", "not_json"}
                  => call_log[i].outcome = "failure"

(***************************************************************************)
(* The converter                                                           *)
(***************************************************************************)
\* A field that holds both '[' and ']'.
Bracketed(field) == "[" \in Range(field) /\ "]" \in Range(field)

\* The number of fields before the first bracketed field.
CoreLen(parts) ==
    Cardinality({i \in 1..Len(parts) : \A j \in 1..i : ~Bracketed(parts[j])})

\* The field, without the white space around it, is a decimal number:
\* digits with at most one point.
Numeric(field) ==
    /\ Range(Strip(field)) \subseteq Digits \cup {"."}
    /\ Range(Strip(field)) \cap Digits # {}
    /\ Cardinality({i \in 1..Len(field) : field[i] = "."}) <= 1

\* The field, without the white space around it, is a string of digits.
AllDigits(field) == Strip(field) # <<>> /\ Range(Strip(field)) \subseteq Digits

\* out is parts with '25' inserted as the 3rd field.
Inserted(parts, out) ==
    /\ Len(out) = Len(parts) + 1
    /\ out[3] = <<"2", "5">>
    /\ \A i \in 1..Len(parts) : out[IF i < 3 THEN i ELSE i + 1] = parts[i]

\* out is parts with the 3rd field overwritten with '25'.
Overwritten(parts, out) ==
    /\ Len(out) = Len(parts)
    /\ \A i \in 1..Len(parts) : out[i] = (IF i = 3 THEN <<"2", "5">> ELSE parts[i])

\* C13 as stated: with 3 fields before the bracketed suffix, '25' is inserted
\* as the 3rd field; with 4 fields of which the 3rd is blank or not a number,
\* the 3rd is overwritten with '25'; every other 'p' string is written as it
\* is.
C13_RepairNonNumeric ==
    "repair" \in xml_done =>
        IF CoreLen(Split(p_attr, ",")) = 3
        THEN Inserted(Split(p_attr, ","), Split(p_out, ","))
        ELSE IF CoreLen(Split(p_attr, ",")) = 4 /\ ~Numeric(Split(p_attr, ",")[3])
        THEN Overwritten(Split(p_attr, ","), Split(p_out, ","))
        ELSE p_out = p_attr

\* C13 as the converter does it: with 3 fields before the first field that
\* holds both '[' and ']', '25' is inserted as the 3rd field; with 4 such
\* fields of which the 3rd, without the white space around it, is not a
\* non-empty string of digits, the 3rd is overwritten with '25'; every other
\* 'p' string is written as it is.
C13_RepairNonDigits ==
    "repair" \in xml_done =>
        IF CoreLen(Split(p_attr, ",")) = 3
        THEN Inserted(Split(p_attr, ","), Split(p_out, ","))
        ELSE IF CoreLen(Split(p_attr, ",")) = 4 /\ ~AllDigits(Split(p_attr, ",")[3])
        THEN Overwritten(Split(p_attr, ","), Split(p_out, ","))
        ELSE p_out = p_attr

\* The two strings of the claim have been repaired to '12.3,1,25,16777215'.
C13_Witness ==
    /\ "repair" \in xml_done
    /\ p_attr \in PExamples
    /\ Len(Split(p_attr, ",")) = 4
    /\ Split(p_attr, ",")[3] = <<>>
    /\ p_out = <<"1", "2", ".", "3", ",", "1", ",", "2", "5", ",",
                 "1", "6", "7", "7", "7", "2", "1", "5">>

\* C14: every record _normalize_comments returns has a non-empty text, and
\* so has every comment element of the document convert_json_to_xml writes,
\* whatever the shapes of the input comments.
C14_TextNonEmpty ==
    /\ "normalize" \in xml_done
           => \A i \in 1..Len(normalized) : normalized[i].m # <<>>
    /\ ("convert" \in xml_done /\ xml_result.written)
           => \A i \in 1..Len(xml_result.doc) :
                  xml_result.doc[i].tag = "d" => xml_result.doc[i].text # <<>>

\* C16: for the file name "Name - S01E07 - <ordinal> 7 <episode>.mp4" the
\* parser returns series name "Name", season 1 and episode 7, classified as
\* a tv series.
C16_SeriesSeasonEpisode ==
    parsed /\ file_name = FileSeriesS01E07 =>
        /\ video_info.ok
        /\ video_info.content_type = "tv_series"
        /\ video_info.series_name = <<"N", "a", "m", "e">>
        /\ video_info.season = Season(1)
        /\ video_info.episode = 7

C16_Witness ==
    /\ parsed /\ file_name = FileSeriesS01E07
    /\ video_info.ok /\ video_info.episode = 7

\* C17: for the file name "Movie Title (2024) - 2160p.mkv" the parser
\* returns a movie named "Movie Title" of the year 2024, and the quality
\* token is no part of the name.
C17_MovieNameYear ==
    parsed /\ file_name = FileMovie2024 =>
        /\ video_info.ok
        /\ video_info.content_type = "movie"
        /\ video_info.movie_name = <<"M", "o", "v", "i", "e", " ", "T", "i", "t", "l", "e">>
        /\ video_info.year = 2024
        /\ ~Contains(video_info.movie_name, <<"2", "1", "6", "0", "p">>)
        /\ ~Contains(video_info.series_name, <<"2", "1", "6", "0", "p">>)

C17_Witness ==
    /\ parsed /\ file_name = FileMovie2024
    /\ video_info.ok /\ video_info.year = 2024

\* The passes of the loop in which the source got through every step.
Completed == {i \in 1..Len(steps) :
                 steps[i].matched /\ steps[i].fetched /\ steps[i].saved}

\* C11: process_video_file returns success = true if and only if at least
\* one source got through every step (episode found, comments fetched, XML
\* written); when every source fails it returns success = false.
C11_SuccessIffSourceCompleted ==
    pc_process = "done" => (result.success <=> Completed # {})

C11_Witness ==
    /\ pc_process = "done"
    /\ Len(steps) = 2 /\ Completed = {}
    /\ Len(result.failed_sources) = 2
    /\ ~result.success

\* What the header of a document says, and the comment elements it holds.
RecordCount(doc) ==
    StrToInt(doc[CHOOSE i \in 1..Len(doc) : doc[i].tag = "maxlimit"].text)
CommentElements(doc) == Cardinality({i \in 1..Len(doc) : doc[i].tag = "d"})
HeaderNames(doc, name) ==
    \E i \in 1..Len(doc) : doc[i].tag # "d" /\ Contains(doc[i].text, name)

\* The end-to-end scenario: the catalog holds the title with season 1, the
\* title has one source, and its episode 1 holds 3 comments.
Scenario ==
    /\ file_name = FileSeriesS01E01
    /\ library_result = [success |-> TRUE, animes |-> <<Anime(1, Title, 1)>>]
    /\ sources_result.success /\ Len(sources_result.sources) = 1
    /\ episodes_results =
           <<[success |-> TRUE,
              episodes |-> <<Episode(1, <<"U7B2C", "1", "U96C6">>)>>]>>
    /\ danmu_results = <<[success |-> TRUE, danmaku |-> Danmaku(3, ThreeComments)]>>

\* C12: in the end-to-end scenario process_video_file writes exactly one XML
\* file, with record count 3, and returns success = true.
C12_EndToEnd ==
    pc_process = "done" /\ Scenario =>
        /\ result.success
        /\ Cardinality(written_files) = 1
        /\ \A w \in written_files : RecordCount(w.doc) = 3

\* C15: for every source whose comments reached the save step, the XML file
\* at the path of the source names the provider in its header, and its
\* record count is the number of comment elements in the file.
C15_HeaderProviderAndCount ==
    \A i \in 1..Len(steps) :
        steps[i].path /\ steps[i].comments # <<>> =>
            \E w \in written_files :
                /\ w.path = GetCorrectDanmuFilepath(video_info, steps[i].provider).path
                /\ \/ HeaderNames(w.doc, steps[i].provider)
                   \/ HeaderNames(w.doc, Suffix(steps[i].provider))
                /\ RecordCount(w.doc) = CommentElements(w.doc)

\* The sources listed with a provider name, and the entries of the result
\* that name the provider.
ListedAs(provider_name) ==
    Cardinality({i \in 1..Len(sources_result.sources) :
                     sources_result.sources[i].providerName = provider_name})
Entries(provider_name) ==
    Cardinality({i \in 1..Len(result.downloaded_files) :
                     result.downloaded_files[i].provider = provider_name})
    + Cardinality({i \in 1..Len(result.failed_sources) :
                       result.failed_sources[i].provider = provider_name})

\* C19: every source that get_anime_sources listed has, in the result, a
\* downloaded file or an entry of failed_sources that names it; sources that
\* share a provider name have one each.
C19_EverySourceAccounted ==
    pc_process = "done" /\ sources_result.success =>
        \A provider_name \in Providers : Entries(provider_name) >= ListedAs(provider_name)

\* C20: for every parsed file, with a season or without, the path of the
\* XML file of a source is computed without error once the episode and the
\* comments of the source are found.
C20_PathComputed ==
    \A i \in 1..Len(steps) : steps[i].matched /\ steps[i].fetched => steps[i].path

\* C18: when the configured worker count changes, every run submitted to
\* the old processor has finished by the time the old processor is dropped,
\* and every file handed to a processor that get_concurrent_processor
\* returned with the configured worker count, a new one, is accepted by it.
C18_AtomicSwap ==
    /\ \A p \in 1..Len(processors) :
           processors[p].discarded => processors[p].finished = processors[p].submitted
    /\ \A i \in 1..Len(submissions) :
           submissions[i].max_workers = submissions[i].configured
               => submissions[i].accepted

(***************************************************************************)
(* C21.  When a first attempt fails (the done-callback of                  *)
(* process_file_concurrent or the result loop of process_files_batch sees  *)
(* success = False), the step that handles the failure appends exactly one *)
(* RetryTask to the retry queue if the captured max_retries is at least 2, *)
(* with attempt = 2 and retry_time = the time of the step plus the         *)
(* configured retry_delay, and leaves the queue as it was if max_retries   *)
(* is 1.                                                                   *)
(***************************************************************************)
\* The step handles the result of the first-attempt run r: the run goes from
\* "running" (callback) or "done" (batch) to "finally".
HandlesFirstAttempt(r) ==
    /\ r.attempt = 1
    /\ \/ r.kind = "cb" /\ r.st = "running"
       \/ r.kind = "batch" /\ r.st = "done"
    /\ \E s \in RunsOf(pool') :
           /\ s = [r EXCEPT !.st = "finally", !.orch = s.orch, !.success = s.success]
           /\ pool' = Replace(pool, r, s)

\* The run the step has put in "finally" failed.
FailedFirstAttempt(r) ==
    /\ HandlesFirstAttempt(r)
    /\ \E s \in RunsOf(pool') :
           /\ s = [r EXCEPT !.st = "finally", !.orch = s.orch, !.success = FALSE]
           /\ pool' = Replace(pool, r, s)

\* C21: a failed first attempt queues one RetryTask (attempt 2, due one
\* retry_delay after the step) when max_retries >= 2, and none otherwise.
C21_FirstFailureQueuesOneRetry ==
    [][\A r \in RunsOf(pool) :
          FailedFirstAttempt(r) =>
              IF r.max_retries >= 2
              THEN retry_queue' =
                       Append(retry_queue,
                              [filepath |-> r.filepath, attempt |-> 2,
                               max_retries |-> r.max_retries,
                               retry_time |-> now + config.retry_delay])
              ELSE retry_queue' = retry_queue]_vars

\* A first attempt has just failed under max_retries = 3: its RetryTask is
\* the only one of the path, with attempt 2, due one delay from now.
C21_Witness ==
    \E p \in Paths :
        /\ first_submits[p] = 1 /\ completed[p] = 1 /\ orch_ok[p] = 0
        /\ \E r \in RunsFor(p) : r.st = "finally" /\ r.max_retries = 3 /\ ~r.success
        /\ Len(retry_queue) = 1
        /\ retry_queue[1] = [filepath |-> p, attempt |-> 2, max_retries |-> 3,
                             retry_time |-> now + config.retry_delay]

(***************************************************************************)
(* The retry loop and shutdown                                             *)
(***************************************************************************)
\* The step is a pass of the retry loop over the queue (lines 98-116).
ScanStep == retry_thread = "scan" /\ retry_thread' \in {"test", "check"}

\* The step submits the retry run r to the executor.
SubmitsRetry(r) ==
    r.kind = "retry" /\ r.st = "queued" /\ CopiesIn(r, pool') > CopiesIn(r, pool)

\* C22.  On every pass of the retry loop, the queued RetryTasks whose
\* retry_time is later than the time of the pass are put back with filepath,
\* attempt, max_retries and retry_time unchanged, a task is taken out for
\* execution only if its retry_time has come, and a retry run is submitted
\* only for a task taken out that way.
C22_NotDuePutBackUnchanged ==
    [][/\ ScanStep =>
              /\ retry_queue' = SelectSeq(retry_queue, LAMBDA t : t.retry_time > now)
              /\ \A i \in 1..Len(ready_tasks') : ready_tasks'[i].retry_time <= now
       /\ \A r \in RunsOf(pool') :
              SubmitsRetry(r) =>
                  /\ ready_tasks # <<>>
                  /\ Head(ready_tasks).retry_time <= now
                  /\ Head(ready_tasks).filepath = r.filepath
                  /\ Head(ready_tasks).attempt = r.attempt
                  /\ Head(ready_tasks).max_retries = r.max_retries]_vars

\* A pass has taken out the due task of one path and has put back the task
\* of the other path, which is not due yet.
C22_Witness ==
    /\ retry_thread = "check"
    /\ Len(ready_tasks) = 1
    /\ \E i \in 1..Len(retry_queue) :
           /\ retry_queue[i].retry_time > now
           /\ retry_queue[i].filepath # ready_tasks[1].filepath
           /\ retry_queue[i].attempt = 2

\* C23.  While a retry execution of one path is running, a RetryTask of
\* another path that is due does not wait for it: the retry loop is not
\* held in the wait for the retries of its pass.
C23_DueTaskNotHeldBack ==
    \A i \in 1..Len(retry_queue) :
        (/\ retry_queue[i].retry_time <= now
         /\ \E r \in RunsOf(pool) :
                /\ r.kind = "retry" /\ r.st = "running"
                /\ r.filepath # retry_queue[i].filepath)
        => retry_thread # "wait"

\* C24.  Once shutdown() has returned, no run is waiting or executing in the
\* executor, and from then on no step submits a run or starts an
\* orchestrator call, whether the join on the retry thread timed out or not.
C24_NothingAfterTeardown ==
    [][shutdown_pc' = "returned" =>
           /\ \A r \in RunsOf(pool') : r.st \notin {"queued", "running"}
           /\ shutdown_pc = "returned" =>
                  /\ invoked' = invoked
                  /\ \A r \in RunsOf(pool') : ~SubmitsRetry(r)]_vars

\* shutdown() has returned after a join that timed out, and the retry loop,
\* still alive, has since tried to submit a due task and was refused.
C24_Witness ==
    /\ shutdown_pc = "returned"
    /\ join_timed_out
    /\ "submit refused" \in warnings
    /\ retry_thread # "exited"

(***************************************************************************)
(* The record of accepted events                                           *)
(***************************************************************************)
\* C25.  _should_process_event, called at time t for (path, kind) on a record
\* of earlier acceptances: if the key's entry is at most 5 s old and younger
\* than the kind's window (0.8 s for created, 2.0 s for moved) the event is
\* suppressed and the entry keeps its time; if the entry is as old as the
\* window or older, or there is none, the event is accepted and the entry
\* is set to t; in both cases no entry of the record is older than 5 s
\* afterwards, and every other entry that is not older than 5 s is kept.
C25_WindowAndExpiry ==
    \A i \in 1..Len(evals) :
        LET e == evals[i]
            key == <<e.path, e.kind>>
            window == IF e.kind = "created" THEN 8 ELSE 20
            known == key \in DOMAIN e.before
        IN  /\ (known /\ e.ev - e.before[key] < window) =>
                   /\ e.st = "suppressed"
                   /\ recent_events[key] = e.before[key]
            /\ (known /\ e.ev - e.before[key] >= window) =>
                   /\ e.st = "accepted"
                   /\ recent_events[key] = e.ev
            /\ ~known => (e.st = "accepted" /\ recent_events[key] = e.ev)
            /\ \A x \in DOMAIN recent_events : e.ev - recent_events[x] <= 50
            /\ \A x \in DOMAIN e.before \ {key} :
                   e.ev - e.before[x] <= 50 =>
                       (x \in DOMAIN recent_events /\ recent_events[x] = e.before[x])

\* A created event exactly 0.8 s after the last accepted one has been
\* accepted, and the evaluation has deleted the entry of the other kind,
\* which was older than 5 s.
C25_Witness ==
    /\ Len(evals) = 1
    /\ evals[1].kind = "created"
    /\ evals[1].st = "accepted"
    /\ <<evals[1].path, "created">> \in DOMAIN evals[1].before
    /\ evals[1].ev - evals[1].before[<<evals[1].path, "created">>] = 8
    /\ <<evals[1].path, "moved">> \in DOMAIN evals[1].before
    /\ evals[1].ev - evals[1].before[<<evals[1].path, "moved">>] = 51
    /\ DOMAIN recent_events = {<<evals[1].path, "created">>}

(***************************************************************************)
(* The configuration seen by submitted work                                *)
(***************************************************************************)
\* C26.  Every RetryTask queued for a path, at its first failure or at a
\* later one, carries the max_retries of the configuration in force when
\* the path was submitted and is due that configuration's retry_delay after
\* the time it was queued, whatever update_config did in between.
C26_SubmittedSnapshotUsed ==
    [][Len(retry_queue') > Len(retry_queue) =>
           LET task == retry_queue'[Len(retry_queue')]
               snapshot == submitted_config[task.filepath]
           IN  /\ task.max_retries = snapshot.max_retries
               /\ task.retry_time = now + snapshot.retry_delay]_vars

(***************************************************************************)
(* The global processor                                                    *)
(***************************************************************************)
\* A caller of get_concurrent_processor has taken processor p out of the
\* global and is about to shut it down (lines 423-428).
BeingReplaced(p) ==
    \E t \in Threads : old_processor[t] = p /\ resize_pc[t] \in {"replace", "shutdown"}

\* C27.  For every interleaving of the callers of get_concurrent_processor,
\* the processors made are at most the first one plus one per change of the
\* configured worker count, and every processor whose retry thread runs is
\* the global one or is being shut down by the caller that replaced it.
C27_OneProcessorNoOrphan ==
    /\ Len(processors) <= 1 + config_changes
    /\ \A p \in 1..Len(processors) :
           processors[p].retry_thread_running =>
               (p = concurrent_processor \/ BeingReplaced(p))

(***************************************************************************)
(* The failure kinds of a first attempt                                    *)
(***************************************************************************)
\* C28.  Whatever made the orchestrator call of a first attempt fail (a
\* result reporting a parse failure, no match or a transport failure, or
\* an exception), the worker returns success = False, and the step that
\* handles the result queues the same RetryTask: attempt 2 with the
\* max_retries captured at submission, due one retry_delay later, or
\* nothing when max_retries is 1.
C28_FailureKindsAlike ==
    [][\A r \in RunsOf(pool) :
          (HandlesFirstAttempt(r) /\ first_outcome'[r.kind] \in FailureKinds) =>
              /\ FailedFirstAttempt(r)
              /\ retry_queue' =
                     IF r.max_retries = 1 THEN retry_queue
                     ELSE Append(retry_queue,
                                 RetryTask(r.filepath, 2, r.max_retries,
                                           now + config.retry_delay))]_vars

\* The orchestrator call of a first attempt raised, and the RetryTask of
\* the path is queued with attempt 2.
C28_Witness ==
    /\ first_outcome["cb"] = "exception"
    /\ first_outcome["batch"] = "none"
    /\ \E r \in RunsOf(pool) : r.kind = "cb" /\ r.st = "finally" /\ ~r.success
    /\ Len(retry_queue) = 1
    /\ retry_queue[1].attempt = 2
    /\ retry_queue[1].max_retries = config.max_retries

(***************************************************************************)
(* The result of a successful run                                          *)
(***************************************************************************)
\* The entry of failed_sources is spelled out in the result's message.
NamedInMessage(entry) == \E i \in 1..Len(result.listed) : result.listed[i] = entry

ArtifactOf(provider_name) ==
    {f \in written_files :
        f.path = GetCorrectDanmuFilepath(video_info, provider_name).path}

\* C30.  A run for a video whose comment files exist returns a result that
\* is not marked as skipped, and for every source whose episode was matched
\* and whose comments were fetched the existing file of the source has been
\* replaced by a file written by this run.
C30_ExistingArtifactRewritten ==
    pc_process = "done" =>
        /\ "skipped" \notin DOMAIN result
        /\ \A i \in 1..Len(steps) :
               (steps[i].matched /\ steps[i].fetched) =>
                   /\ ArtifactOf(steps[i].provider) # {}
                   /\ \A f \in ArtifactOf(steps[i].provider) : f.doc # OldDocument

(***************************************************************************)
(* A file name that cannot be parsed                                       *)
(***************************************************************************)
\* No call of the DanmuClient has been made by process_video_file.
NoClientCall ==
    /\ library_result = [success |-> FALSE, animes |-> <<>>]
    /\ search_result = NoAnime
    /\ sources_result = [success |-> FALSE, sources |-> <<>>]
    /\ episodes_results = <<>>
    /\ danmu_results = <<>>
    /\ steps = <<>>

\* process_video_file returns from the test of line 99.
ReturnsUnparsed ==
    /\ pc_process = "parse"
    /\ ~video_info'.ok

\* C31.  When the file name cannot be parsed, the step that parses it is the
\* step that returns, with success = false, and at the return no call of the
\* client has been made and no file has been written.
C31_UnparsedFailsFast ==
    /\ [][ReturnsUnparsed =>
            /\ pc_process' = "done"
            /\ ~result'.success
            /\ NoClientCall'
            /\ written_files' = {}]_vars
    /\ []((pc_process = "done" /\ parsed /\ ~video_info.ok) =>
            /\ ~result.success /\ NoClientCall /\ written_files = {})

C31_Witness ==
    /\ pc_process = "done"
    /\ parsed
    /\ ~video_info.ok
    /\ result # NoResult
    /\ ~result.success

(***************************************************************************)
(* A comment that cannot be normalized                                     *)
(***************************************************************************)
\* The comment at index i (from 1) of the payload gives a record.
Normalizable(i) == ~NormalizeOne(comments_in[i], i - 1).none

\* The number of comments up to index i that give a record.
KeptUpTo(i) == Cardinality({j \in 1..i : Normalizable(j)})

\* C32.  A comment of the payload that gives no record, because its
\* normalization raises or returns None, is skipped: every other comment is
\* in the list _normalize_comments returns, and is a <d> element of the
\* document convert_json_to_xml writes, at the place its rank among the
\* comments that give a record assigns to it.
C32_UnnormalizableSkipped ==
    ({"comments", "normalize", "convert"} \subseteq xml_done /\ xml_result.written) =>
        /\ Len(normalized) = KeptUpTo(Len(comments_in))
        /\ Len(xml_result.doc) = Len(DandanHeader(normalized)) + Len(normalized)
        /\ \A i \in 1..Len(comments_in) :
               Normalizable(i) =>
                   LET rec == NormalizeOne(comments_in[i], i - 1)
                       d == xml_result.doc[Len(DandanHeader(normalized)) + KeptUpTo(i)]
                   IN  /\ normalized[KeptUpTo(i)] = [p |-> rec.p, m |-> rec.m,
                                                     none |-> FALSE]
                       /\ d.tag = "d"
                       /\ d.p = RepairPAttr(rec.p)
                       /\ d.text = XmlEscape(rec.m)

\* A payload of two comments: the first raises or returns None, the second
\* has been normalized and written.
C32_Witness ==
    /\ {"comments", "normalize", "convert"} \subseteq xml_done
    /\ xml_result.written
    /\ Len(comments_in) = 2
    /\ ~Normalizable(1)
    /\ Normalizable(2)
    /\ Len(normalized) = 1
    /\ xml_result.doc[Len(xml_result.doc)].tag = "d"

\* The same with a first comment whose normalization raises.
C32_WitnessRaises == C32_Witness /\ Raises(comments_in[1])

(***************************************************************************)
(* The two layouts                                                         *)
(***************************************************************************)
Missing == <<"missing">>

\* The text of the first element of the document with the tag, if any.
FieldOf(doc, tag) ==
    IF \E i \in 1..Len(doc) : doc[i].tag = tag
    THEN doc[CHOOSE i \in 1..Len(doc) :
                 doc[i].tag = tag /\ \A j \in 1..(i - 1) : doc[j].tag # tag].text
    ELSE Missing

\* The <d> elements of the document, in order.
RecordsOf(doc) == SelectSeq(doc, LAMBDA e : e.tag = "d")

BothLayoutsApplied == {"records", "dandan", "tree"} \subseteq xml_done

\* C33.  For one list of normalized comments the document of
\* generate_xml_from_comments and the document of generate_dandan_xml name
\* the same provider, hold the same number of records, and give every record
\* the same escaped text and the same repaired p attribute.
C33_LayoutsAgree ==
    BothLayoutsApplied =>
        /\ FieldOf(tree_xml, "sourceprovider") = FieldOf(xml_result.doc, "sourceprovider")
        /\ Len(RecordsOf(tree_xml)) = Len(RecordsOf(xml_result.doc))
        /\ \A i \in 1..Len(normalized) :
               /\ RecordsOf(tree_xml)[i].text = RecordsOf(xml_result.doc)[i].text
               /\ RecordsOf(tree_xml)[i].p = RecordsOf(xml_result.doc)[i].p

\* What the two layouts do agree on: the number of records, their order, and
\* the text of the records that hold no quote character.
C33_LayoutsAgreeOnCount ==
    BothLayoutsApplied =>
        /\ Len(RecordsOf(tree_xml)) = Len(normalized)
        /\ Len(RecordsOf(xml_result.doc)) = Len(normalized)
        /\ FieldOf(tree_xml, "datasize") = IntToStr(Len(normalized))
        /\ FieldOf(xml_result.doc, "maxlimit") = IntToStr(Len(normalized))
        /\ \A i \in 1..Len(normalized) :
               (\A k \in 1..Len(normalized[i].m) : normalized[i].m[k] \notin {"\"", "'"})
                   => RecordsOf(tree_xml)[i].text = RecordsOf(xml_result.doc)[i].text

(***************************************************************************)
(* Title matching                                                          *)
(***************************************************************************)
\* a and b are the same letter, whatever its case.
SameLetter(a, b) ==
    \/ a = b
    \/ \E k \in 1..Len(UpperCase) : {a, b} = {UpperCase[k], LowerCase[k]}

\* x occurs in y, case ignored.
OccursIn(x, y) ==
    \E off \in 0..(Len(y) - Len(x)) :
        \A k \in 1..Len(x) : SameLetter(x[k], y[off + k])

\* The places of the library entries whose title contains the series name or
\* is contained in it.
TitleMatched ==
    {i \in 1..Len(library_result.animes) :
        \/ OccursIn(video_info.series_name, library_result.animes[i].title)
        \/ OccursIn(library_result.animes[i].title, video_info.series_name)}

\* Those of them whose season is the season of the hint.
SeasonMatched ==
    {i \in TitleMatched :
        video_info.season.some /\ library_result.animes[i].season = video_info.season.n}

First(S) == CHOOSE i \in S : \A j \in S : i <= j

Searched == pc_process # "search" /\ pc_process # "parse"

\* C34.  _search_anime returns the first title-matching entry whose season
\* is the hint when there is one, otherwise the first title-matching entry,
\* and returns None exactly when no entry of the library title-matches.
C34_SearchPrefersSeason ==
    Searched =>
        /\ (search_result = NoAnime) <=> (TitleMatched = {})
        /\ SeasonMatched # {} =>
               search_result = library_result.animes[First(SeasonMatched)]
        /\ (TitleMatched # {} /\ SeasonMatched = {}) =>
               search_result = library_result.animes[First(TitleMatched)]

\* The hint is season 2; the first entry matches the name in another case
\* and has season 1, the second is contained in the name and has season 2.
C34_Witness ==
    /\ Searched
    /\ video_info.season = Season(2)
    /\ Len(library_result.animes) = 2
    /\ TitleMatched = {1, 2}
    /\ SeasonMatched = {2}
    /\ library_result.animes[1].title # video_info.series_name
    /\ Len(library_result.animes[2].title) < Len(video_info.series_name)
    /\ search_result = library_result.animes[2]

\* The hint names a season no matching entry has: the first match is taken.
C34_WitnessFallback ==
    /\ Searched
    /\ video_info.season = Season(3)
    /\ TitleMatched = {2}
    /\ search_result = library_result.animes[2]

(***************************************************************************)
(* Episode matching                                                        *)
(***************************************************************************)
\* The episodes _match_episode was given in the pass that has been made.
GivenEpisodes == all_episodes[1].episodes

\* The places of the episodes whose title matches one of the patterns of
\* lines 349-356 for the episode number of the video.
NamedPlaces ==
    {i \in 1..Len(GivenEpisodes) :
        TitleNames(GivenEpisodes[i].episodeTitle, video_info.episode)}

MatchMade == Len(steps) = 1 /\ Len(all_episodes) = 1

\* C35.  _match_episode returns the first episode whose title matches a
\* pattern for the target number; when no title matches it returns the
\* episode at place target if the list is that long, and None otherwise.
C35_TitleThenPosition ==
    MatchMade =>
        /\ NamedPlaces # {} => match_result = GivenEpisodes[First(NamedPlaces)]
        /\ (NamedPlaces = {} /\ video_info.episode \in 1..Len(GivenEpisodes)) =>
               match_result = GivenEpisodes[video_info.episode]
        /\ (NamedPlaces = {} /\ video_info.episode \notin 1..Len(GivenEpisodes)) =>
               match_result = NoEpisode
        /\ steps[1].matched <=> match_result # NoEpisode

\* Target 2: the first episode is named "ep02" and the second names no 2;
\* the title decides, not the position.
C35_Witness ==
    /\ MatchMade
    /\ video_info.episode = 2
    /\ Len(GivenEpisodes) = 2
    /\ GivenEpisodes[1].episodeTitle = <<"e", "p", "0", "2">>
    /\ NamedPlaces = {1}
    /\ match_result = GivenEpisodes[1]

\* Target 2 and no title names it: the second episode is taken by position.
C35_WitnessPosition ==
    /\ MatchMade
    /\ video_info.episode = 2
    /\ Len(GivenEpisodes) = 2
    /\ NamedPlaces = {}
    /\ match_result = GivenEpisodes[2]

\* Target 3, two episodes, no title names it: nothing is found.
C35_WitnessNotFound ==
    /\ MatchMade
    /\ video_info.episode = 3
    /\ Len(GivenEpisodes) = 2
    /\ NamedPlaces = {}
    /\ match_result = NoEpisode

(***************************************************************************)
(* Stopping the event source                                               *)
(***************************************************************************)
\* Nothing is left to do: no run in the executor, no task in the queue.
Quiescent == pool = EmptyBag /\ retry_queue = <<>>

\* Every first attempt submitted and every RetryTask ever queued has had
\* its orchestrator call, and every call has returned.
AllExecuted ==
    \A p \in Paths :
        /\ invoked[p] = first_submits[p]
                            + Cardinality({t \in queued_ever : t.filepath = p})
        /\ completed[p] = invoked[p]

\* Work is pending: a run is in the executor or a task is in the queue.
WorkPending == pool # EmptyBag \/ retry_queue # <<>>

\* C36.  stop_watcher changes nothing of the processor, and after it every
\* run in the executor still runs to completion and every queued RetryTask
\* is still executed: the processor comes to rest with every submitted
\* attempt and every queued task executed.
C36_StopCancelsNothing ==
    /\ [][(running /\ ~running') =>
             UNCHANGED <<pool, retry_queue, retry_thread, processing_files>>]_vars
    /\ [](Quiescent /\ ~running => AllExecuted)
    /\ (~running /\ WorkPending) ~> (Quiescent /\ AllExecuted)

\* The watcher has been stopped while a run is being executed and a
\* RetryTask waits in the queue.
C36_Witness ==
    /\ ~running
    /\ retry_queue # <<>>
    /\ \E r \in RunsOf(pool) : r.st = "running"

(***************************************************************************)
(* The in-flight set                                                       *)
(***************************************************************************)
\* Every first attempt has completed and every call has returned or raised:
\* no worker holds a first attempt, no callback is pending, and neither a
\* caller nor the batch thread is between its test and its return.
FirstAttemptsOver ==
    /\ \A r \in RunsOf(pool) :
           r.kind = "retry" \/ (r.kind = "batch" /\ r.st = "done")
    /\ \A c \in Callers : callers[c].pc # "checked"
    /\ batch.pc \in {"idle", "done", "raised"}

\* The paths of the first attempts of a batch that have completed and that
\* the batch thread has yet to handle.
AwaitingBatch == {r.filepath : r \in {q \in RunsOf(pool) : q.kind = "batch"}}

\* C37.  A path does not stay in processing_files: once the first attempts
\* are over and every call has returned, the set holds no path, whether the
\* attempts succeeded or failed, whether the submission was accepted or
\* not, and whether or not a RetryTask of the path waits in the queue.
C37_InflightReleased ==
    (FirstAttemptsOver /\ batch.pc # "wait") => processing_files = {}

\* The part that holds: a path added by process_file_concurrent is removed
\* when its first attempt is over, with its RetryTask still in the queue.
C37_CallbackPathsReleased ==
    (FirstAttemptsOver /\ batch.pc = "idle") => processing_files = {}

C37_CallbackWitness ==
    /\ FirstAttemptsOver
    /\ batch.pc = "idle"
    /\ \E i \in 1..Len(retry_queue) : retry_queue[i].filepath \notin processing_files
    /\ \E c \in Callers : callers[c].pc = "returned"
    /\ \E c \in Callers : callers[c].pc = "refused"

(***************************************************************************)
(* The retry queue of a processor that is shut down                        *)
(***************************************************************************)
\* shutdown() has been called on the processor (line 428 of a resize).
ShutdownCalled == shutdown_pc # "idle"

\* The RetryTasks that were in the queue when shutdown() was called or were
\* scheduled onto it afterwards.
LeftBehind == queued_ever \ taken_before

\* C38, as stated.  No RetryTask that was in the queue of the processor when
\* shutdown() was called, or that was scheduled onto it afterwards, is
\* submitted for execution.
C38_LeftBehindNeverExecuted ==
    [][ShutdownCalled =>
           \A r \in RunsOf(pool') :
               SubmitsRetry(r) => TaskKey(r) \notin LeftBehind]_vars

\* C38, amended.  After shutdown() has cleared the flag the retry loop
\* begins no new pass: its next test of the flag ends it.  Once the loop has
\* exited, or the executor has been shut down, no RetryTask is submitted for
\* execution, and after the exit no task leaves the queue: the tasks the
\* loop has left are never run.
C38_NothingAfterLoopExit ==
    [][/\ (retry_thread = "test" /\ ~retry_thread_running /\ retry_thread' # "test")
           => retry_thread' = "exited"
       /\ (retry_thread = "exited" \/ executor_shutdown) =>
              /\ \A r \in RunsOf(pool') : ~SubmitsRetry(r)
              /\ retry_thread = "exited" =>
                     /\ retry_thread' = "exited"
                     /\ \A i \in 1..Len(retry_queue) :
                            retry_queue'[i] = retry_queue[i]]_vars

\* The loop has exited and shutdown() has returned while a RetryTask is in
\* the queue, one that a run finishing in the executor scheduled after
\* shutdown() was called.
C38_Witness ==
    /\ retry_thread = "exited"
    /\ shutdown_pc = "returned"
    /\ retry_queue # <<>>
    /\ \E i \in 1..Len(retry_queue) : TaskKey(retry_queue[i]) \in LeftBehind
    /\ Cardinality(LeftBehind) >= 2

(***************************************************************************)
(* A stream of events for one key                                          *)
(***************************************************************************)
\* The evaluations before the i-th that were for the same (path, kind) and
\* were accepted.
AcceptedBefore(i) ==
    {j \in 1..(i - 1) : /\ evals[j].path = evals[i].path
                        /\ evals[j].kind = evals[i].kind
                        /\ evals[j].st = "accepted"}

Latest(S) == CHOOSE j \in S : \A x \in S : x <= j

\* C39.  In a stream of events evaluated one after the other, an event is
\* suppressed exactly when the last ACCEPTED event of its (path, kind) is
\* younger than the kind's window (0.8 s created, 2.0 s moved), whatever
\* suppressed events came in between; the entry of a key holds the time of
\* its last accepted event.
C39_WindowFromLastAccepted ==
    \A i \in 1..Len(evals) :
        LET e == evals[i]
            window == IF e.kind = "created" THEN 8 ELSE 20
        IN  /\ AcceptedBefore(i) = {} => e.st = "accepted"
            /\ AcceptedBefore(i) # {} =>
                   /\ e.st = "accepted" <=>
                          e.ev - evals[Latest(AcceptedBefore(i))].ev >= window
                   /\ <<e.path, e.kind>> \in DOMAIN e.before
                   /\ e.before[<<e.path, e.kind>>] = evals[Latest(AcceptedBefore(i))].ev
            /\ (i = Len(evals) /\ e.st = "suppressed") =>
                   recent_events[<<e.path, e.kind>>] = e.before[<<e.path, e.kind>>]

\* Three events of one key: the first accepted, the second suppressed inside
\* the window, the third accepted exactly one window after the first although
\* the suppressed one is younger than the window.
C39_Witness ==
    /\ Len(evals) = 3
    /\ evals[1].kind = evals[2].kind /\ evals[2].kind = evals[3].kind
    /\ evals[1].path = evals[2].path /\ evals[2].path = evals[3].path
    /\ evals[1].st = "accepted"
    /\ evals[2].st = "suppressed"
    /\ evals[3].st = "accepted"
    /\ evals[3].ev - evals[1].ev = DedupTime(evals[1].kind)
    /\ evals[3].ev - evals[2].ev < DedupTime(evals[1].kind)

(***************************************************************************)
(* The attempts of process_file                                            *)
(***************************************************************************)
Succeeded(r) == r.outcome \in {"success", "skipped"}

\* C40.  In every call of process_file: process_video_file is entered at most
\* max_retries times; an attempt that returned a success is the last one;
\* an attempt that returned a failure (a dictionary or None) is followed by
\* the next one at once, and an attempt that raised by the next one
\* retry_delay later; nothing is slept after the last attempt; and when
\* process_file returns the path leaves the handler's processing set.
C40_AttemptsOfProcessFile ==
    [][LET rs == attempt_loop'.results
           n == Len(rs)
       IN  /\ Cardinality({i \in 1..n : rs[i].invoked}) <= attempt_loop'.max_retries
           /\ n <= attempt_loop'.max_retries
           /\ \A i \in 1..n :
                  /\ Succeeded(rs[i]) => (i = n /\ attempt_loop'.pc = "done")
                  /\ rs[i].delay > 0 =>
                         (rs[i].outcome = "raises" /\ i < attempt_loop'.max_retries)
                  /\ (rs[i].outcome = "raises" /\ i < attempt_loop'.max_retries)
                         => rs[i].delay = attempt_loop'.retry_delay
                  /\ i < n => rs[i + 1].begun = rs[i].at + rs[i].delay
           /\ (handler.pc = "processing" /\ handler'.pc = "idle") =>
                  /\ attempt_loop.pc = "done"
                  /\ handler.path \notin handler_processing']_vars

\* process_file has returned after three attempts made one after the other
\* without a wait: two failures, one of them a None, and a success.
C40_Witness ==
    /\ handler.pc = "idle"
    /\ handler_processing = {}
    /\ attempt_loop.pc = "done"
    /\ Len(attempt_loop.results) = 3
    /\ attempt_loop.results[1].outcome = "failure"
    /\ attempt_loop.results[2].outcome = "none"
    /\ attempt_loop.results[3].outcome = "success"
    /\ attempt_loop.results[3].begun = attempt_loop.results[1].at

\* process_file has returned after max_retries attempts that all raised,
\* with one sleep of retry_delay between them and none after the last.
C40_WitnessRaises ==
    /\ handler.pc = "idle"
    /\ attempt_loop.pc = "done"
    /\ attempt_loop.max_retries = 2
    /\ Len(attempt_loop.results) = 2
    /\ attempt_loop.results[1].outcome = "raises"
    /\ attempt_loop.results[2].outcome = "raises"
    /\ attempt_loop.results[1].delay = attempt_loop.retry_delay
    /\ attempt_loop.results[2].delay = 0
    /\ attempt_loop.results[2].begun = attempt_loop.results[1].at + 10

=============================================================================
